---- MODULE Spec2Model ----
(***************************************************************************)
(* The x402 proxy bridge of ampersend-sdk: X402BridgeTransport (bridge.ts) *)
(* with the X402Middleware it owns (mcp/client/middleware.ts) and the      *)
(* JSON-RPC envelope helpers (mcp/client/protocol.ts).                     *)
(*                                                                         *)
(* One bridge is modelled together with its environment: a buyer that      *)
(* sends JSON-RPC requests with ids it has not used before, an upstream    *)
(* server that answers each request it received once with a response of    *)
(* any kind, and a treasurer whose onPaymentRequired returns null, throws  *)
(* or returns a fresh authorization and whose onStatus returns or throws.  *)
(*                                                                         *)
(* Further parts, each with a specification of its own: validateTargetURL  *)
(* (server/validation.ts, ValidationSpec), the ProxyServer and its session *)
(* registry (server/server.ts, ServerSpec), the command line's parseOptions*)
(* with parseEnvConfig (cli.ts, env.ts, CliSpec) and the AmpersendTreasurer*)
(* with its ApiClient (ampersend/treasurer.ts, client.ts, TreasurerSpec),  *)
(* the ApiClient under concurrent calls (AuthSpec), the MCP Client with    *)
(* payment retry (mcp/client/client.ts, ClientSpec), the FastMCP payment   *)
(* middleware (mcp/server/fastmcp/middleware.ts, MiddlewareSpec),          *)
(* createExactPayment of the smart-account wallet (exact.ts, ExactSpec),   *)
(* the request buildMessageWithPayment makes (ProtocolSpec), the bridge    *)
(* with an upstream that also sends messages of its own accord             *)
(* (UpstreamSpec) and the NaiveTreasurer over a SmartAccountWallet         *)
(* (NaiveSpec).                                                            *)
(***************************************************************************)
EXTENDS Integers, Sequences, FiniteSets, Bags, TLC

(* ------------------------------ bounds --------------------------------- *)
\* Bases of the JSON-RPC ids the buyer draws from: 1..MaxBase, each as the
\* number n and as the string "n".
MaxBase == 2
\* Number of requests the buyer sends in one run.
MaxRequests == 2
\* bridge.ts:25 sets MAX_PENDING_REQUESTS to 1000; the model scales the
\* ceiling down so that a run reaches it.
MAX_PENDING_REQUESTS == 1
\* Number of calls of bridge.close() in one run: the registry's and the ones
\* the transports' onclose callbacks make.
MaxCloseCalls == 2
\* Number of errors the two transports report in one run.
MaxTransportErrors == 1
\* Number of notifications and requests upstream sends of its own accord.
MaxUnsolicited == 1

(* ------------------------------ JSON-RPC ids --------------------------- *)
\* An id is a number or a string.  A string id is the decimal text of base,
\* preceded by pre copies of the prefix "retry_with_payment__".
NumId(b) == [kind |-> "num", pre |-> 0, base |-> b]
StrId(b) == [kind |-> "str", pre |-> 0, base |-> b]
NoId == [kind |-> "none", pre |-> 0, base |-> 0]
BuyerIds == {NumId(b) : b \in 1..MaxBase} \cup {StrId(b) : b \in 1..MaxBase}

\* `${syntheticIdPrefix}${id}`: the template literal formats a number as its
\* decimal text, so the number 7 and the string "7" give the same string.
SyntheticId(id) == [kind |-> "str", pre |-> id.pre + 1, base |-> id.base]

IsSynthetic(id) == id.kind = "str" /\ id.pre > 0

(* ------------------------------ messages ------------------------------- *)
\* What upstream can answer, by what protocol.ts tells apart:
\*   result          success, no "x402/payment-response" in result._meta
\*   settle_ok       success, result._meta["x402/payment-response"].success
\*   settle_fail     success, result._meta["x402/payment-response"] failed
\*   error           error that is no x402 payment-required error
\*   pay402          error 402 whose data lists accepts
\*   pay402_settle   error 402 whose data lists accepts and also carries
\*                   "x402/payment-response" (success = false)
Kinds == {"result", "settle_ok", "settle_fail", "error", "pay402", "pay402_settle"}

\* A request as the bridge sees it: id, params._meta["ampersend/original-id"]
\* (NoId when absent), whether params._meta["x402/payment"] is set, and
\* params._meta["ampersend/paymentId"] (NoId when absent).
BuyerRequestMsg(id) == [id |-> id, originalId |-> NoId, payment |-> FALSE, paymentId |-> NoId]

\* x402DataFromJSONRPCMessage(msg) # null
HasX402Data(kind) == kind \in {"settle_ok", "settle_fail", "pay402", "pay402_settle"}

\* isMcpX402PaymentResponse(x402Data): the zod object schema ignores the
\* keys it does not name, so 402 data carrying "x402/payment-response" passes.
isMcpX402PaymentResponse(kind) == kind \in {"settle_ok", "settle_fail", "pay402_settle"}

\* x402Data["x402/payment-response"].success ? "accepted" : "rejected"
PaymentStatus(kind) == IF kind = "settle_ok" THEN "accepted" ELSE "rejected"

\* buildMessageWithPayment(request, authorization.payment, authorizationId)
buildMessageWithPayment(request, authId) ==
    [request EXCEPT !.payment = TRUE, !.paymentId = authId]

\* addMeta(request, "ampersend/original-id", v)
addMetaOriginalId(request, v) == [request EXCEPT !.originalId = v]

(* ------------------------------ state ---------------------------------- *)
VARIABLES
    requestById,     \* X402BridgeTransport._requestById
    authorizations,  \* X402Middleware._authorizations (keys)
    tasks,           \* x402Middleware.onMessage calls that await the treasurer
    closeP,          \* X402BridgeTransport._close: "unset", "pending", "settled"
    leftOpen,        \* the buyer-facing transport has not been closed
    rightOpen,       \* the upstream-facing transport has not been closed
    used,            \* ids the buyer has used
    refused,         \* ids of the buyer requests _sendRight threw for
    onerrorLog,      \* calls of bridge.onerror (the id of the message that failed)
    upInbox,         \* requests upstream received and has not answered
    sentRight,       \* calls of _rightTransport.send: a bag of requests
    delivered,       \* calls of _leftTransport.send that reached the buyer, in order
    decisions,       \* returns of treasurer.onPaymentRequired: a bag of <<request, outcome>>
    statusLog,       \* calls of treasurer.onStatus: a bag of <<status, authorization id>>
    drained,         \* an upstream response removed a pending entry since the
                     \* last buyer request
    closeCalls,      \* calls of X402BridgeTransport.close()
    closeCount,      \* calls of close() the bridge made on each transport
    closeState,      \* the promise each transport's close() returned: "idle"
                     \* (not called), "pending", "fulfilled", "rejected"
    oncloseCalls,    \* calls of bridge.onclose
    emitted,         \* number of messages _rightTransport.onmessage was called with
    deliveredSeq,    \* for each message in `delivered`, which of upstream's
                     \* messages it is (1 for the first, 2 for the second, ...)
    held             \* for the request of each onMessage call in progress: which
                     \* of upstream's messages its response is, and the buyer
                     \* requests the bridge had accepted when it arrived

closeVars == <<closeCalls, closeCount, closeState, oncloseCalls>>
orderVars == <<emitted, deliveredSeq, held>>

bridgeVars == <<requestById, authorizations, tasks, closeP, leftOpen, rightOpen,
                used, refused, onerrorLog, upInbox, sentRight, delivered,
                statusLog, decisions, drained, closeVars, orderVars>>

Pending == DOMAIN requestById

BridgeInit ==
    /\ requestById = [k \in {} |-> BuyerRequestMsg(NoId)]
    /\ authorizations = {}
    /\ tasks = {}
    /\ closeP = "unset"
    /\ leftOpen = TRUE
    /\ rightOpen = TRUE
    /\ used = {}
    /\ refused = {}
    /\ onerrorLog = <<>>
    /\ upInbox = {}
    /\ sentRight = EmptyBag
    /\ delivered = <<>>
    /\ statusLog = EmptyBag
    /\ decisions = EmptyBag
    /\ drained = FALSE
    /\ closeCalls = 0
    /\ closeCount = [left |-> 0, right |-> 0]
    /\ closeState = [left |-> "idle", right |-> "idle"]
    /\ oncloseCalls = 0
    /\ emitted = 0
    /\ deliveredSeq = <<>>
    /\ held = [r \in {} |-> [seq |-> 0, accepted |-> {}]]

\* Map.set(k, v) and Map.delete(k)
MapSet(m, k, v) == [x \in (DOMAIN m) \cup {k} |-> IF x = k THEN v ELSE m[x]]
MapDelete(m, k) == [x \in (DOMAIN m) \ {k} |-> m[x]]

\* _rightTransport.send(request): the call is logged; the request reaches
\* upstream while the transport is open.
RightSend(request) ==
    /\ sentRight' = sentRight (+) SetToBag({request})
    /\ upInbox' = IF rightOpen THEN upInbox \cup {request} ELSE upInbox

\* _leftTransport.send(message): reaches the buyer while the transport is open.
LeftSend(message) ==
    delivered' = IF leftOpen THEN Append(delivered, message) ELSE delivered

\* The message this step hands the buyer, if it hands one, is upstream's n-th.
Deliveries(n) ==
    deliveredSeq' = IF delivered' # delivered THEN Append(deliveredSeq, n)
                    ELSE deliveredSeq

(* ------------------------------ buyer -> upstream ---------------------- *)
\* _sendRight: this._requestById.size >= this.MAX_PENDING_REQUESTS
LimitReachedStrict(m) == Cardinality(DOMAIN m) > MAX_PENDING_REQUESTS
LimitReached(m) == Cardinality(DOMAIN m) >= MAX_PENDING_REQUESTS

\* The buyer never repeats an id.  Up to renaming of the bases and of the two
\* kinds (no step of the bridge tells the number n from the string "n" of an
\* id the buyer chose) every choice of ids is one where a base is taken after
\* the base below it and as a number first.
BuyerMayUse(id) ==
    /\ id \in BuyerIds \ used
    /\ Cardinality(used) < MaxRequests
    /\ id.base = 1 \/ NumId(id.base - 1) \in used
    /\ id.kind = "num" \/ NumId(id.base) \in used

\* _leftTransport.onmessage(message) for a request: _sendRight(message), and
\* its rejection goes to this.onerror.
LeftOnMessage(id) ==
    /\ leftOpen
    /\ BuyerMayUse(id)
    /\ used' = used \cup {id}
    /\ drained' = FALSE
    /\ IF LimitReached(requestById)
       THEN /\ refused' = refused \cup {id}
            /\ onerrorLog' = Append(onerrorLog, id)
            /\ UNCHANGED <<requestById, sentRight, upInbox>>
       ELSE /\ requestById' = MapSet(requestById, id, BuyerRequestMsg(id))
            /\ RightSend(BuyerRequestMsg(id))
            /\ UNCHANGED <<refused, onerrorLog>>
    /\ UNCHANGED <<authorizations, tasks, closeP, leftOpen, rightOpen, delivered,
                   statusLog, decisions, closeVars, orderVars>>

(* ------------------------------ middleware ----------------------------- *)
\* onMessage line 51: request.params?._meta?.["x402/payment"]
AlreadyPaidNever(request) == FALSE
AlreadyPaid(request) == request.payment

\* X402Middleware.onMessage(request, response) up to its first await, or to
\* its return or throw when it awaits nothing: where the call is left.
\*   "void"              returned void without awaiting
\*   "throw"             threw without awaiting
\*   "onStatusSettle"    awaits treasurer.onStatus(accepted | rejected)
\*   "onPaymentRequired" awaits treasurer.onPaymentRequired (decidePayment)
OnMessageEntry(request, kind) ==
    IF ~HasX402Data(kind) THEN "void"
    ELSE IF isMcpX402PaymentResponse(kind)
         THEN IF request.paymentId = NoId THEN "throw"
              ELSE IF request.paymentId \notin authorizations THEN "throw"
              ELSE "onStatusSettle"
    ELSE IF AlreadyPaid(request) THEN "void"
    ELSE "onPaymentRequired"

\* An onMessage call suspended at an await: the request and the response the
\* bridge passed it, the await it is at ("onPaymentRequired",
\* "onStatusSettle", "onStatusSending") and the authorization it holds.
Task(request, response, pc, auth) ==
    [request |-> request, response |-> response, pc |-> pc, auth |-> auth]

Replace(t, u) == (tasks \ {t}) \cup {u}

(* ------------------------------ then / catch --------------------------- *)
\* The callbacks the bridge chains on the onMessage promise.  They run as
\* microtasks right after the promise settles, so each is part of the step
\* that settles it.

\* bridge.ts:81-82: the retry the bridge builds from retryWithPayment.
RetryRequest(request, auth) ==
    [addMetaOriginalId(buildMessageWithPayment(request, auth), request.id)
        EXCEPT !.id = SyntheticId(request.id)]

\* bridge.ts:80-85: the middleware returned the retry of `request`.
ThenRetryAndForward(request, response, auth) ==
    /\ requestById' = MapSet(requestById, RetryRequest(request, auth).id,
                             RetryRequest(request, auth))
    /\ RightSend(RetryRequest(request, auth))
    /\ LeftSend(response)
ThenRetry(request, response, auth) ==
    /\ requestById' = MapSet(requestById, RetryRequest(request, auth).id,
                             RetryRequest(request, auth))
    /\ RightSend(RetryRequest(request, auth))
    /\ UNCHANGED delivered

\* bridge.ts:86-89 (the middleware returned void) and 91-95 (it threw).
ThenForward(response) == LeftSend(response)

\* bridge.ts:91-95: onMessage rejected; the error is logged on the console
\* and the response is forwarded.
CatchSilently(response) == UNCHANGED delivered
CatchForward(response) == LeftSend(response)

(* ------------------------------ upstream -> buyer ---------------------- *)
\* bridge.ts:69, this._requestById.delete(response.id)
ForgetWithRetry(m, id) == MapDelete(MapDelete(m, id), SyntheticId(id))
Forget(m, id) == MapDelete(m, id)

\* bridge.ts:71-74, the id the response leaves the bridge with
RewriteId(request, response) ==
    IF request.originalId # NoId
    THEN [response EXCEPT !.id = request.originalId]
    ELSE response

\* _rightTransport.onmessage(response): a message without an id has the id
\* NoId.
RightTransportOnmessage(response) ==
    /\ IF response.id = NoId \/ response.id \notin Pending
       THEN /\ LeftSend(response)
            /\ UNCHANGED <<requestById, tasks, statusLog, drained, held>>
       ELSE LET request == requestById[response.id]
                rewritten == RewriteId(request, response)
                pc == OnMessageEntry(request, response.kind)
            IN /\ requestById' = Forget(requestById, response.id)
               /\ drained' = (drained \/ LimitReached(requestById))
               /\ IF pc \in {"void", "throw"}
                  THEN /\ IF pc = "throw" THEN CatchForward(rewritten)
                          ELSE ThenForward(rewritten)
                       /\ UNCHANGED <<tasks, statusLog, held>>
                  ELSE /\ tasks' = tasks \cup
                            {Task(request, rewritten, pc,
                                  IF pc = "onStatusSettle" THEN request.paymentId ELSE NoId)}
                       /\ statusLog' =
                            IF pc = "onStatusSettle"
                            THEN statusLog (+) SetToBag({<<PaymentStatus(response.kind), request.paymentId>>})
                            ELSE statusLog
                       /\ held' = MapSet(held, request,
                                         [seq |-> emitted + 1, accepted |-> used \ refused])
                       /\ UNCHANGED delivered
    /\ emitted' = emitted + 1
    /\ Deliveries(emitted + 1)
    /\ UNCHANGED <<authorizations, closeP, leftOpen, rightOpen, used, refused,
                   onerrorLog, sentRight, decisions, closeVars>>

\* Upstream answers the request `req` it received with a response of kind
\* `kind`.
RightOnMessage(req, kind) ==
    /\ rightOpen
    /\ req \in upInbox
    /\ upInbox' = upInbox \ {req}
    /\ RightTransportOnmessage([id |-> req.id, kind |-> kind])

\* What upstream sends of its own accord: a notification (no id), a request
\* such as a ping (an id of upstream's choice and a method), or a response
\* nobody is waiting for.
ServerIds == BuyerIds \cup {SyntheticId(id) : id \in BuyerIds}
Unsolicited ==
    {[id |-> NoId, kind |-> "notification"]}
    \cup [id : ServerIds, kind : {"ping"} \cup Kinds]

VARIABLES
    unsolicited      \* how many such messages upstream has sent

upstreamVars == <<unsolicited>>

UpstreamInit == unsolicited = 0

\* Upstream sends such a message.
UpstreamSends(message) ==
    /\ rightOpen
    /\ unsolicited < MaxUnsolicited
    /\ unsolicited' = unsolicited + 1
    /\ message.kind \in Kinds => message.id \notin Pending
    /\ UNCHANGED upInbox
    /\ RightTransportOnmessage(message)

(* ------------------------------ treasurer returns ---------------------- *)
\* onMessage lines 55-58: onPaymentRequired returned null, so decidePayment
\* returns null and onMessage returns void; the bridge forwards the response.
DeclineReportingStatus(t) ==
    /\ tasks' = tasks \ {t}
    /\ statusLog' = statusLog (+) SetToBag({<<"declined", NoId>>})
    /\ ThenForward(t.response)
    /\ UNCHANGED authorizations
Decline(t) ==
    /\ tasks' = tasks \ {t}
    /\ ThenForward(t.response)
    /\ UNCHANGED <<authorizations, statusLog>>

\* onPaymentRequired threw (the wallet failed): onMessage rejects and the
\* bridge's catch forwards the response.
PaymentRequiredThrows(t) ==
    /\ tasks' = tasks \ {t}
    /\ CatchForward(t.response)
    /\ UNCHANGED <<authorizations, statusLog>>

\* authorizationId: crypto.randomUUID() in the treasurers.  A fresh id is
\* named by the request it was issued for: onPaymentRequired is called for a
\* request, which leaves the pending map when it is answered, at most once.
AuthorizationId(request) == request.id

\* onMessage lines 60-66: the treasurer returned an authorization with a fresh
\* id; it is registered and treasurer.onStatus("sending") is called.
ApproveWithoutSending(t) ==
    /\ authorizations' = authorizations \cup {AuthorizationId(t.request)}
    /\ tasks' = Replace(t, [t EXCEPT !.pc = "onStatusSending",
                                     !.auth = AuthorizationId(t.request)])
    /\ UNCHANGED <<delivered, statusLog>>
Approve(t) ==
    LET a == AuthorizationId(t.request) IN
    /\ authorizations' = authorizations \cup {a}
    /\ statusLog' = statusLog (+) SetToBag({<<"sending", a>>})
    /\ tasks' = Replace(t, [t EXCEPT !.pc = "onStatusSending", !.auth = a])
    /\ UNCHANGED delivered

\* The await of treasurer.onPaymentRequired in decidePayment ends.
PaymentRequiredReturns(t, outcome) ==
    /\ t \in tasks
    /\ t.pc = "onPaymentRequired"
    /\ decisions' = decisions (+) SetToBag({<<t.request, outcome>>})
    /\ CASE outcome = "null" -> Decline(t)
         [] outcome = "throw" -> PaymentRequiredThrows(t)
         [] outcome = "authorization" -> Approve(t)
    /\ held' = IF outcome = "authorization" THEN held ELSE MapDelete(held, t.request)
    /\ Deliveries(held[t.request].seq)
    /\ UNCHANGED <<requestById, closeP, leftOpen, rightOpen, used, refused,
                   onerrorLog, upInbox, sentRight, drained, closeVars, emitted>>

\* onMessage lines 45-47: after onStatus(accepted | rejected) the
\* authorization is deleted and onMessage returns void; the bridge forwards
\* the response.
Settled(t) ==
    /\ authorizations' = authorizations \ {t.auth}
    /\ ThenForward(t.response)
    /\ UNCHANGED <<requestById, sentRight, upInbox>>

\* onMessage line 68: after onStatus("sending") onMessage returns
\* messageWithPayment and the bridge sends the retry.
SendingReported(t) ==
    /\ ThenRetry(t.request, t.response, t.auth)
    /\ UNCHANGED authorizations

\* treasurer.onStatus threw at line 43 or at line 66: onMessage rejects
\* there, and the bridge's catch forwards the response.
OnStatusThrows(t) ==
    /\ CatchForward(t.response)
    /\ UNCHANGED <<authorizations, requestById, sentRight, upInbox>>

\* An await of treasurer.onStatus ends: onStatus returned or threw.
OnStatusReturns(t, outcome) ==
    /\ t \in tasks
    /\ t.pc \in {"onStatusSettle", "onStatusSending"}
    /\ tasks' = tasks \ {t}
    /\ CASE outcome = "throw" -> OnStatusThrows(t)
         [] outcome = "return" /\ t.pc = "onStatusSettle" -> Settled(t)
         [] outcome = "return" /\ t.pc = "onStatusSending" -> SendingReported(t)
    /\ held' = MapDelete(held, t.request)
    /\ Deliveries(held[t.request].seq)
    /\ UNCHANGED <<closeP, leftOpen, rightOpen, used, refused, onerrorLog,
                   statusLog, decisions, drained, closeVars, emitted>>

(* ------------------------------ close ---------------------------------- *)
\* close(), called by the session registry or by a transport's onclose:
\* this._close ||= Promise.resolve().then(() => this._doClose()).  The first
\* call starts _doClose, which calls close() on both transports.  Nothing
\* else of the bridge or of its middleware is touched.
Close ==
    /\ closeP = "unset"
    /\ closeP' = "pending"
    /\ leftOpen' = FALSE
    /\ rightOpen' = FALSE
    /\ closeCalls' = closeCalls + 1
    /\ closeCount' = [left |-> closeCount.left + 1, right |-> closeCount.right + 1]
    /\ closeState' = [left |-> "pending", right |-> "pending"]
    /\ UNCHANGED <<requestById, authorizations, tasks, used, refused, onerrorLog,
                   upInbox, sentRight, delivered, statusLog, decisions, drained,
                   oncloseCalls, orderVars>>

\* close() called again, by the registry or from a transport's onclose
\* callback while the transport closes: this._close is set, so the call only
\* returns the promise.
CloseAgainRestarting ==
    /\ closeP # "unset"
    /\ closeCalls < MaxCloseCalls
    /\ closeCalls' = closeCalls + 1
    /\ closeCount' = [left |-> closeCount.left + 1, right |-> closeCount.right + 1]
    /\ closeState' = [left |-> "pending", right |-> "pending"]
    /\ UNCHANGED <<requestById, authorizations, tasks, closeP, leftOpen, rightOpen,
                   used, refused, onerrorLog, upInbox, sentRight, delivered,
                   statusLog, decisions, drained, oncloseCalls, orderVars>>
CloseAgain ==
    /\ closeP # "unset"
    /\ closeCalls < MaxCloseCalls
    /\ closeCalls' = closeCalls + 1
    /\ UNCHANGED <<requestById, authorizations, tasks, closeP, leftOpen, rightOpen,
                   used, refused, onerrorLog, upInbox, sentRight, delivered,
                   statusLog, decisions, drained, closeCount, closeState,
                   oncloseCalls, orderVars>>

\* The promise a transport's close() returned settles.
TransportCloseSettles(side, outcome) ==
    /\ closeState[side] = "pending"
    /\ closeState' = [closeState EXCEPT ![side] = outcome]
    /\ UNCHANGED <<requestById, authorizations, tasks, closeP, leftOpen, rightOpen,
                   used, refused, onerrorLog, upInbox, sentRight, delivered,
                   statusLog, decisions, drained, closeCalls, closeCount,
                   oncloseCalls, orderVars>>

\* An entry of onerrorLog for an error a transport reported.
TransportError(side) == [kind |-> side, pre |-> 0, base |-> 0]
TransportErrors ==
    Cardinality({i \in 1..Len(onerrorLog) : onerrorLog[i].kind \in {"left", "right"}})

\* _leftTransport.onerror(error) or _rightTransport.onerror(error): the error
\* is logged and passed to this.onerror.
TransportOnerrorClosing(side) ==
    /\ TransportErrors < MaxTransportErrors
    /\ onerrorLog' = Append(onerrorLog, TransportError(side))
    /\ closeP' = IF closeP = "unset" THEN "pending" ELSE closeP
    /\ leftOpen' = FALSE
    /\ rightOpen' = FALSE
    /\ UNCHANGED <<requestById, authorizations, tasks, used, refused, upInbox,
                   sentRight, delivered, statusLog, decisions, drained, closeVars,
                   orderVars>>
TransportOnerror(side) ==
    /\ TransportErrors < MaxTransportErrors
    /\ onerrorLog' = Append(onerrorLog, TransportError(side))
    /\ UNCHANGED <<requestById, authorizations, tasks, closeP, leftOpen, rightOpen,
                   used, refused, upInbox, sentRight, delivered, statusLog,
                   decisions, drained, closeVars, orderVars>>

\* Promise.all([left.close(), right.close()]): fulfilled when both are, and
\* rejected as soon as one is.
PromiseAll(states) ==
    IF \E side \in DOMAIN states : states[side] = "rejected" THEN "rejected"
    ELSE IF \A side \in DOMAIN states : states[side] = "fulfilled" THEN "fulfilled"
    ELSE "pending"

\* _doClose() after its await: a rejection goes to this.onerror, then
\* this.onclose fires.
DoClose ==
    /\ closeP = "pending"
    /\ PromiseAll(closeState) # "pending"
    /\ closeP' = "settled"
    /\ onerrorLog' = IF PromiseAll(closeState) = "rejected"
                     THEN Append(onerrorLog, NoId) ELSE onerrorLog
    /\ oncloseCalls' = oncloseCalls + 1
    /\ UNCHANGED <<requestById, authorizations, tasks, leftOpen, rightOpen, used,
                   refused, upInbox, sentRight, delivered, statusLog,
                   decisions, drained, closeCalls, closeCount, closeState,
                   orderVars>>

(* ------------------------------ target URLs -------------------------- *)
\* A target string, by the parts the URL parser tells apart: the text before
\* the first ":" (the whole text when there is none), whether the ":" is
\* there, the number of "/" that follow, the host text and the port text.
SchemeTexts == {"http", "HTTP", "https", "ftp", "file", "javascript", "custom",
                "localhost", "1http", "not a url", ""}
HostTexts == {"example.com", "localhost", "127.0.0.1", "10.0.0.1", "192.168.1.10",
              "[::1]", "", "exa mple.com", "[::1"}
PortTexts == {"", "8080", "65536"}

Targets ==
    [scheme : SchemeTexts, colon : BOOLEAN, slashes : 0..2,
     host : HostTexts, port : PortTexts]

\* new URL(targetUrl), with no base.  A scheme starts with a letter and goes
\* on with letters, digits, "+", "-" and "."; it is lower-cased.
IsSchemeSyntax(text) ==
    text \in {"http", "HTTP", "https", "ftp", "file", "javascript", "custom", "localhost"}
ToLowerCase(text) == IF text = "HTTP" THEN "http" ELSE text
ProtocolOf(scheme) ==
    CASE scheme = "http" -> "http:"
      [] scheme = "https" -> "https:"
      [] scheme = "ftp" -> "ftp:"
      [] scheme = "file" -> "file:"
      [] scheme = "javascript" -> "javascript:"
      [] scheme = "custom" -> "custom:"
      [] scheme = "localhost" -> "localhost:"
IsSpecialScheme(scheme) == scheme \in {"http", "https", "ftp", "file"}
\* A host with a forbidden code point (a space) or an unclosed "[" fails.
HostParses(host) == host \notin {"exa mple.com", "[::1"}
\* A port is decimal digits of value at most 65535.
PortParses(port) == port \in {"", "8080"}
NoURL == [protocol |-> "", host |-> "", port |-> ""]
NewURL(targetUrl) ==
    LET scheme == ToLowerCase(targetUrl.scheme)
        authority == (IsSpecialScheme(scheme) /\ scheme # "file") \/ targetUrl.slashes = 2
        parses ==
            /\ targetUrl.colon
            /\ IsSchemeSyntax(targetUrl.scheme)
            /\ authority =>
                  /\ HostParses(targetUrl.host)
                  /\ PortParses(targetUrl.port)
                  /\ targetUrl.host = "" => targetUrl.port = ""
                  /\ IsSpecialScheme(scheme) /\ scheme # "file" => targetUrl.host # ""
                  /\ scheme = "file" => targetUrl.port = ""
    IN IF parses
       THEN [ok |-> TRUE,
             url |-> [protocol |-> ProtocolOf(scheme),
                      host |-> IF authority THEN targetUrl.host ELSE "",
                      port |-> IF authority THEN targetUrl.port ELSE ""]]
       ELSE [ok |-> FALSE, url |-> NoURL]

\* validation.ts:17
AllowedWithFtp == {"http:", "https:", "ftp:"}
ALLOWED_PROTOCOLS == {"http:", "https:"}

\* validateTargetURL(targetUrl): what it returns or the code of the
\* URLValidationError it throws.
validateTargetURL(targetUrl) ==
    LET parsed == NewURL(targetUrl) IN
    IF ~parsed.ok THEN [threw |-> TRUE, code |-> "INVALID_URL", url |-> NoURL]
    ELSE IF parsed.url.protocol \notin ALLOWED_PROTOCOLS
         THEN [threw |-> TRUE, code |-> "INVALID_PROTOCOL", url |-> NoURL]
    ELSE [threw |-> FALSE, code |-> "", url |-> parsed.url]

VARIABLES
    validated        \* the last call of validateTargetURL: its argument and outcome

validationVars == <<validated>>

NotCalled == [scheme |-> "", colon |-> FALSE, slashes |-> 0, host |-> "", port |-> "-"]

ValidationInit ==
    validated = [target |-> NotCalled, outcome |-> [threw |-> FALSE, code |-> "", url |-> NoURL]]

\* A call validateTargetURL(targetUrl).
Validate(targetUrl) ==
    validated' = [target |-> targetUrl, outcome |-> validateTargetURL(targetUrl)]

(* ------------------------------ proxy server ------------------------- *)
MaxSessions == 2        \* bridges the server constructs in one run
MaxHttp == 4            \* HTTP requests that arrive in one run
MaxInflight == 1        \* buyer requests one bridge has upstream at a time

\* Session ids are fresh UUIDs: the n-th bridge constructed gets id n.
NoSession == 0
Sids == 1..MaxSessions
Headers == {NoSession} \cup Sids

\* req.query.target: absent, or a text.
Missing == [scheme |-> "", colon |-> FALSE, slashes |-> 0, host |-> "", port |-> "absent"]
EmptyText == [scheme |-> "", colon |-> FALSE, slashes |-> 0, host |-> "", port |-> ""]
HttpTarget == [scheme |-> "http", colon |-> TRUE, slashes |-> 2, host |-> "example.com", port |-> ""]
LocalTarget == [scheme |-> "https", colon |-> TRUE, slashes |-> 2, host |-> "localhost", port |-> "8080"]
FtpTarget == [scheme |-> "ftp", colon |-> TRUE, slashes |-> 2, host |-> "example.com", port |-> ""]
BadTarget == [scheme |-> "not a url", colon |-> FALSE, slashes |-> 0, host |-> "", port |-> ""]
QueryTargets == {Missing, EmptyText, HttpTarget, LocalTarget, FtpTarget, BadTarget}
Bodies == {"initialize", "request"}

VARIABLES
    bridges,         \* keys of ProxyServer._bridges
    bridgeOf,        \* ProxyServer._bridges: for each key, the bridge (by its
                     \* number in order of construction)
    stopping,        \* ProxyServer.stop(): not called ("running"), in its loop
                     \* awaiting the close of the bridge at `cursor`, or done
    session,         \* per bridge constructed: state, requests upstream, replies
                     \* handed on (got), dropped, and dropped after the 200 (late);
                     \* sid is the session id its transport generated
    created,         \* number of bridges constructed
    deleting,        \* per session id: DELETE handlers awaiting bridge.close()
    deleted,         \* session ids whose DELETE was answered 200
    arrived,         \* number of HTTP requests that arrived
    lastRequest,     \* the last HTTP request that arrived
    answered,        \* number of responses sent
    lastResponse     \* the last response sent

serverVars == <<bridges, bridgeOf, stopping, session, created, deleting, deleted, arrived, lastRequest,
                answered, lastResponse>>

ServerInit ==
    /\ bridges = {}
    /\ bridgeOf = [sid \in {} |-> 0]
    /\ stopping = [phase |-> "running", cursor |-> NoSession]
    /\ session = [b \in {} |-> [state |-> "open", sid |-> NoSession, inflight |-> 0,
                                 got |-> 0, dropped |-> 0, late |-> 0]]
    /\ created = 0
    /\ deleting = [sid \in Sids |-> 0]
    /\ deleted = {}
    /\ arrived = 0
    /\ lastRequest = [method |-> "", target |-> Missing, session |-> NoSession, body |-> ""]
    /\ answered = 0
    /\ lastResponse = [method |-> "", session |-> NoSession, status |-> "", code |-> ""]

Arrive(method, target, header, body) ==
    /\ arrived < MaxHttp
    /\ arrived' = arrived + 1
    /\ lastRequest' = [method |-> method, target |-> target, session |-> header, body |-> body]

Respond(method, header, status, code) ==
    /\ answered' = answered + 1
    /\ lastResponse' = [method |-> method, session |-> header, status |-> status, code |-> code]

\* !targetUrl
TargetAbsent(targetUrl) == targetUrl \in {Missing, EmptyText}

\* The catch of URLValidationError around validateTargetURL(targetUrl).
TargetRefusedForNewOnly(targetUrl, header) ==
    header \notin bridges /\ validateTargetURL(targetUrl).threw
TargetRefused(targetUrl, header) == validateTargetURL(targetUrl).threw

\* this._bridges.get(sessionId) is defined.
RegisteredNever(header) == FALSE
Registered(header) == header \in bridges

\* The bridge's transports pass messages only until close() closes them.
BridgeDeliversAlways(state) == TRUE
BridgeDelivers(state) == state = "open"

\* The handler of POST /mcp.
Post(targetUrl, header, body) ==
    /\ Arrive("POST", targetUrl, header, body)
    /\ IF TargetAbsent(targetUrl)
       THEN /\ Respond("POST", header, "400", "")
            /\ UNCHANGED <<bridges, bridgeOf, session, created>>
       ELSE IF TargetRefused(targetUrl, header)
       THEN /\ Respond("POST", header, "400", validateTargetURL(targetUrl).code)
            /\ UNCHANGED <<bridges, bridgeOf, session, created>>
       ELSE IF header = NoSession \/ ~Registered(header)
       THEN \* a new bridge; the transport registers it when the body is an
            \* initialize request and refuses any other body
            /\ created < MaxSessions
            /\ created' = created + 1
            /\ session' = [b \in 1..(created + 1) |->
                              IF b <= created THEN session[b]
                              ELSE [state |-> "open",
                                    sid |-> IF body = "initialize" THEN created + 1
                                            ELSE NoSession,
                                    inflight |-> 0, got |-> 0, dropped |-> 0, late |-> 0]]
            /\ bridges' = IF body = "initialize" THEN bridges \cup {created + 1} ELSE bridges
            /\ bridgeOf' = IF body = "initialize"
                           THEN MapSet(bridgeOf, created + 1, created + 1) ELSE bridgeOf
            /\ Respond("POST", header, "by transport", "")
       ELSE \* the existing bridge handles the request
            /\ session[bridgeOf[header]].inflight < MaxInflight
            /\ session' = IF body = "request"
                             /\ BridgeDelivers(session[bridgeOf[header]].state)
                          THEN [session EXCEPT ![bridgeOf[header]].inflight = @ + 1]
                          ELSE session
            /\ Respond("POST", header, "by transport", "")
            /\ UNCHANGED <<bridges, bridgeOf, created>>
    /\ UNCHANGED <<deleting, deleted, stopping>>

\* The handler of DELETE /mcp, up to its await of bridge.close().
DeleteLenient(header) ==
    /\ Arrive("DELETE", Missing, header, "")
    /\ IF header = NoSession
       THEN /\ Respond("DELETE", header, "400", "")
            /\ UNCHANGED <<session, deleting>>
       ELSE IF ~Registered(header)
       THEN /\ Respond("DELETE", header, "200", "")
            /\ UNCHANGED <<session, deleting>>
       ELSE /\ session' = [session EXCEPT ![bridgeOf[header]].state =
                                               IF @ = "open" THEN "closing" ELSE @]
            /\ deleting' = [deleting EXCEPT ![header] = @ + 1]
            /\ UNCHANGED <<answered, lastResponse>>
    /\ UNCHANGED <<bridges, bridgeOf, created, deleted, stopping>>
Delete(header) ==
    /\ Arrive("DELETE", Missing, header, "")
    /\ IF header = NoSession
       THEN /\ Respond("DELETE", header, "400", "")
            /\ UNCHANGED <<session, deleting>>
       ELSE IF ~Registered(header)
       THEN /\ Respond("DELETE", header, "404", "")
            /\ UNCHANGED <<session, deleting>>
       ELSE /\ session' = [session EXCEPT ![bridgeOf[header]].state =
                                               IF @ = "open" THEN "closing" ELSE @]
            /\ deleting' = [deleting EXCEPT ![header] = @ + 1]
            /\ UNCHANGED <<answered, lastResponse>>
    /\ UNCHANGED <<bridges, bridgeOf, created, deleted, stopping>>

\* One of the bridge's transports closes (the buyer or upstream disconnects):
\* its onclose calls bridge.close().
TransportOnclose(sid) ==
    /\ sid \in DOMAIN session
    /\ session[sid].state = "open"
    /\ session' = [session EXCEPT ![sid].state = "closing"]
    /\ UNCHANGED <<bridges, bridgeOf, stopping, created, deleting, deleted, arrived,
                   lastRequest, answered, lastResponse>>

\* _doClose reaches this.onclose?.(): the callback the server installed
\* removes the session.
BridgeOncloseKeeping(sid) ==
    /\ sid \in DOMAIN session
    /\ session[sid].state = "closing"
    /\ session' = [session EXCEPT ![sid].state = "closed"]
    /\ UNCHANGED <<bridges, bridgeOf, stopping, created, deleting, deleted, arrived,
                   lastRequest, answered, lastResponse>>
BridgeOnclose(sid) ==
    /\ sid \in DOMAIN session
    /\ session[sid].state = "closing"
    /\ session' = [session EXCEPT ![sid].state = "closed"]
    /\ bridges' = bridges \ {session[sid].sid}
    /\ bridgeOf' = MapDelete(bridgeOf, session[sid].sid)
    /\ UNCHANGED <<stopping, created, deleting, deleted, arrived, lastRequest, answered,
                   lastResponse>>

\* The DELETE handler after its await of bridge.close().
DeleteResumes(sid) ==
    /\ deleting[sid] > 0
    /\ session[sid].state = "closed"
    /\ deleting' = [deleting EXCEPT ![sid] = @ - 1]
    /\ bridges' = bridges \ {sid}
    /\ bridgeOf' = MapDelete(bridgeOf, sid)
    /\ deleted' = deleted \cup {sid}
    /\ Respond("DELETE", sid, "200", "")
    /\ UNCHANGED <<stopping, session, created, arrived, lastRequest>>

\* Upstream answers a request of the session.
UpstreamReply(sid) ==
    /\ sid \in DOMAIN session
    /\ session[sid].inflight > 0
    /\ session' = IF BridgeDelivers(session[sid].state)
                  THEN [session EXCEPT ![sid].inflight = @ - 1, ![sid].got = @ + 1]
                  ELSE [session EXCEPT ![sid].inflight = @ - 1, ![sid].dropped = @ + 1,
                                       ![sid].late = IF sid \in deleted THEN @ + 1 ELSE @]
    /\ UNCHANGED <<bridges, bridgeOf, stopping, created, deleting, deleted, arrived,
                   lastRequest, answered, lastResponse>>

\* One turn of the loop of stop(), for (const bridge of this._bridges.values())
\* await bridge.close(): the Map is iterated in insertion order, which is the
\* order of the session ids, and an entry deleted meanwhile is skipped.  The
\* next bridge is closed and awaited; when there is none the registry is
\* cleared.
StopLoop(cursor) ==
    LET rest == {sid \in bridges : sid > cursor} IN
    IF rest = {}
    THEN /\ bridges' = {}
         /\ bridgeOf' = [sid \in {} |-> 0]
         /\ stopping' = [phase |-> "stopped", cursor |-> NoSession]
         /\ UNCHANGED session
    ELSE LET next == CHOOSE sid \in rest : \A other \in rest : sid <= other IN
         /\ session' = [session EXCEPT ![bridgeOf[next]].state =
                                          IF @ = "open" THEN "closing" ELSE @]
         /\ stopping' = [phase |-> "stopping", cursor |-> next]
         /\ UNCHANGED <<bridges, bridgeOf>>

\* ProxyServer.stop() is called.
Stop ==
    /\ stopping.phase = "running"
    /\ StopLoop(NoSession)
    /\ UNCHANGED <<created, deleting, deleted, arrived, lastRequest, answered,
                   lastResponse>>

\* The close() that stop() awaits has resolved.
StopResumes ==
    /\ stopping.phase = "stopping"
    /\ session[stopping.cursor].state = "closed"
    /\ StopLoop(stopping.cursor)
    /\ UNCHANGED <<created, deleting, deleted, arrived, lastRequest, answered,
                   lastResponse>>

(* ------------------------------ command line ------------------------- *)
\* process.env under the resolved prefix, and the --port argument.  A variable
\* that is not set reads as undefined.
Undefined == "undefined"
EnvNames == {"PORT", "BUYER_PRIVATE_KEY", "BUYER_SMART_ACCOUNT_ADDRESS",
             "BUYER_SMART_ACCOUNT_KEY_PRIVATE_KEY", "AMPERSEND_API_URL"}
Environments ==
    [PORT : {Undefined, "3000", "abc"},
     BUYER_PRIVATE_KEY : {Undefined, "0xkey", "key"},
     BUYER_SMART_ACCOUNT_ADDRESS : {Undefined, "0xaccount"},
     BUYER_SMART_ACCOUNT_KEY_PRIVATE_KEY : {Undefined, "0xsession"},
     AMPERSEND_API_URL : {Undefined, "https://api.ampersend.ai", "not a url"}]
PortArguments == {Undefined, "9000"}

VARIABLES
    processEnv,      \* process.env
    portArgument,    \* the value of --port
    options          \* what parseOptions returned, or that it threw

cliVars == <<processEnv, portArgument, options>>

NoOptions == [status |-> "not run", port |-> "", wallet |-> "", treasurer |-> "", apiUrl |-> ""]

CliInit ==
    /\ processEnv = [name \in EnvNames |-> Undefined]
    /\ portArgument = Undefined
    /\ options = NoOptions

\* The envVars record parseEnvConfig builds from process.env.
ReadNames == {"PORT", "BUYER_PRIVATE_KEY", "BUYER_SMART_ACCOUNT_ADDRESS",
              "BUYER_SMART_ACCOUNT_KEY_PRIVATE_KEY"}
EnvVars(env) == [name \in ReadNames |-> env[name]]

\* A key of the object the schema parses; a key the object lacks is undefined.
Field(envVars, name) == IF name \in DOMAIN envVars THEN envVars[name] ELSE Undefined

StartsWith0x(val) == val \in {"0xkey", "0xaccount", "0xsession"}
IsPort(val) == val \in {"3000", "9000"}
IsUrl(val) == val = "https://api.ampersend.ai"

\* createEnvSchema(envPrefix).parse(envVars): the parsed object, or that it
\* throws a ZodError.
SchemaParse(envVars) ==
    LET field(name) == Field(envVars, name)
        optional(name, good) == field(name) = Undefined \/ good
        valid ==
            /\ optional("PORT", IsPort(field("PORT")))
            /\ optional("BUYER_PRIVATE_KEY", StartsWith0x(field("BUYER_PRIVATE_KEY")))
            /\ optional("BUYER_SMART_ACCOUNT_ADDRESS",
                        StartsWith0x(field("BUYER_SMART_ACCOUNT_ADDRESS")))
            /\ optional("BUYER_SMART_ACCOUNT_KEY_PRIVATE_KEY",
                        StartsWith0x(field("BUYER_SMART_ACCOUNT_KEY_PRIVATE_KEY")))
            /\ optional("AMPERSEND_API_URL", IsUrl(field("AMPERSEND_API_URL")))
            /\ ~(field("BUYER_PRIVATE_KEY") # Undefined
                 /\ field("BUYER_SMART_ACCOUNT_ADDRESS") # Undefined)
            /\ field("BUYER_SMART_ACCOUNT_ADDRESS") # Undefined
                  => field("BUYER_SMART_ACCOUNT_KEY_PRIVATE_KEY") # Undefined
            /\ field("BUYER_PRIVATE_KEY") # Undefined
                  \/ field("BUYER_SMART_ACCOUNT_ADDRESS") # Undefined
    IN [ok |-> valid, config |-> [name \in EnvNames |-> field(name)]]

parseEnvConfig(env) == SchemaParse(EnvVars(env))

\* cliPort ?? envConfig.PORT ?? 8402
createTransportConfig(cliPort, envConfig) ==
    IF cliPort # Undefined THEN cliPort
    ELSE IF envConfig["PORT"] # Undefined THEN envConfig["PORT"] ELSE "8402"

createWalletConfig(envConfig) ==
    IF envConfig["BUYER_SMART_ACCOUNT_ADDRESS"] # Undefined THEN "smart-account" ELSE "eoa"

parseOptions(cliPort, env) ==
    LET parsed == parseEnvConfig(env) IN
    IF ~parsed.ok THEN [NoOptions EXCEPT !.status = "threw"]
    ELSE [status |-> "ok",
          port |-> createTransportConfig(cliPort, parsed.config),
          wallet |-> createWalletConfig(parsed.config),
          treasurer |-> IF parsed.config["AMPERSEND_API_URL"] # Undefined
                        THEN "AmpersendTreasurer" ELSE "NaiveTreasurer",
          apiUrl |-> parsed.config["AMPERSEND_API_URL"]]

\* The process is started with an environment and arguments.
Exec(env, cliPort) ==
    /\ options.status = "not run"
    /\ processEnv' = env
    /\ portArgument' = cliPort
    /\ UNCHANGED options

\* main() calls parseOptions.
Main ==
    /\ options.status = "not run"
    /\ options' = parseOptions(portArgument, processEnv)
    /\ UNCHANGED <<processEnv, portArgument>>

(* ------------------------------ Ampersend treasurer ------------------ *)
VARIABLES
    apiClient,       \* the ApiClient: constructed, has a session key, auth state
    treasurerCall,   \* the call of the treasurer in progress and where it is
    lastReturn       \* how the last call of the treasurer ended

treasurerVars == <<apiClient, treasurerCall, lastReturn>>

Null == 0 - 1
NoCall == [op |-> "none", pc |-> "", index |-> Null]
NoCause == [at |-> "", how |-> ""]

TreasurerInit ==
    /\ apiClient = [constructed |-> FALSE, sessionKey |-> FALSE, auth |-> "none"]
    /\ treasurerCall = NoCall
    /\ lastReturn = [op |-> "none", cause |-> NoCause, value |-> ""]

\* The responses of the authorize endpoint: how many requirements are
\* authorized and the recommended index (or null).
AuthResponses == [count : 0..2, recommended : {Null} \cup 0..2]
FetchOutcomes == {"ok", "failed", "timed out"}

\* createAmpersendTreasurer(config)
createAmpersendTreasurer(sessionKey) ==
    /\ ~apiClient.constructed
    /\ apiClient' = [constructed |-> TRUE, sessionKey |-> sessionKey, auth |-> "none"]
    /\ UNCHANGED <<treasurerCall, lastReturn>>

\* this.auth.expiresAt > new Date() stops holding.
TokenExpires ==
    /\ apiClient.auth = "valid"
    /\ apiClient' = [apiClient EXCEPT !.auth = "expired"]
    /\ UNCHANGED <<treasurerCall, lastReturn>>

\* The bridge's middleware calls onPaymentRequired or onStatus.
Invoke(op) ==
    /\ apiClient.constructed
    /\ treasurerCall.op = "none"
    /\ treasurerCall' = [op |-> op, pc |-> "ensureAuthenticated", index |-> Null]
    /\ UNCHANGED <<apiClient, lastReturn>>

\* The try/catch around the body of onPaymentRequired and of onStatus.
CaughtUnlessWallet(op, cause) == cause.at # "wallet"
Caught(op, cause) == TRUE

\* What the caller of the treasurer sees when an error is thrown in the body.
OnThrow(op, cause) ==
    IF Caught(op, cause)
    THEN IF op = "onPaymentRequired" THEN "null" ELSE "void"
    ELSE "raised"

\* The call ends: it returns value, or an error thrown for cause reaches the
\* handler's catch.
Finish(thrown, cause, value) ==
    /\ lastReturn' = [op |-> treasurerCall.op, cause |-> cause,
                      value |-> IF thrown THEN OnThrow(treasurerCall.op, cause) ELSE value]
    /\ treasurerCall' = NoCall

\* The endpoint the call is for.
Endpoint(op) == IF op = "onPaymentRequired" THEN "authorization" ELSE "report"

\* ensureAuthenticated, up to the first fetch of performAuthentication.
EnsureAuthenticated ==
    /\ treasurerCall.pc = "ensureAuthenticated"
    /\ IF apiClient.auth = "valid"
       THEN treasurerCall' = [treasurerCall EXCEPT !.pc = "request"] /\ UNCHANGED lastReturn
       ELSE IF ~apiClient.sessionKey
       THEN Finish(TRUE, [at |-> "authentication", how |-> "no session key"], "")
       ELSE treasurerCall' = [treasurerCall EXCEPT !.pc = "nonce"] /\ UNCHANGED lastReturn
    /\ UNCHANGED apiClient

\* account.signMessage settles.
SignSettles(outcome) ==
    /\ treasurerCall.pc = "sign"
    /\ IF outcome = "ok"
       THEN treasurerCall' = [treasurerCall EXCEPT !.pc = "login"] /\ UNCHANGED lastReturn
       ELSE Finish(TRUE, [at |-> "authentication", how |-> "failed"], "")
    /\ UNCHANGED apiClient

\* A fetch of the ApiClient settles: the nonce, the login, or the authorize or
\* events request.
FetchSettles(outcome, response) ==
    /\ treasurerCall.pc \in {"nonce", "login", "request"}
    /\ IF outcome # "ok"
       THEN /\ Finish(TRUE, [at |-> IF treasurerCall.pc = "request"
                                    THEN Endpoint(treasurerCall.op) ELSE "authentication",
                             how |-> outcome], "")
            /\ UNCHANGED apiClient
       ELSE IF treasurerCall.pc = "nonce"
       THEN /\ treasurerCall' = [treasurerCall EXCEPT !.pc = "sign"]
            /\ UNCHANGED <<apiClient, lastReturn>>
       ELSE IF treasurerCall.pc = "login"
       THEN /\ treasurerCall' = [treasurerCall EXCEPT !.pc = "request"]
            /\ apiClient' = [apiClient EXCEPT !.auth = "valid"]
            /\ UNCHANGED lastReturn
       ELSE IF treasurerCall.op = "onStatus"
       THEN Finish(FALSE, NoCause, "void") /\ UNCHANGED apiClient
       ELSE IF response.count = 0
       THEN Finish(FALSE, [at |-> "authorization", how |-> "none authorized"], "null")
               /\ UNCHANGED apiClient
       ELSE LET recommendedIndex == IF response.recommended = Null THEN 0
                                    ELSE response.recommended
            IN IF recommendedIndex >= response.count
               THEN Finish(TRUE, [at |-> "authorization", how |-> "index out of bounds"], "")
                       /\ UNCHANGED apiClient
               ELSE /\ treasurerCall' = [treasurerCall EXCEPT !.pc = "createPayment",
                                                              !.index = recommendedIndex]
                    /\ UNCHANGED <<apiClient, lastReturn>>

\* this.wallet.createPayment settles.
WalletSettles(outcome) ==
    /\ treasurerCall.pc = "createPayment"
    /\ IF outcome = "ok"
       THEN Finish(FALSE, NoCause, "authorization")
       ELSE Finish(TRUE, [at |-> "wallet", how |-> "failed"], "")
    /\ UNCHANGED apiClient

(* ------------------------------ ApiClient, concurrent calls ---------- *)
\* The calls of authorizePayment and reportPaymentEvent that run at the
\* same time on one ApiClient, and the mutex around its login.
MaxCallers == 3
MaxResets == 1

VARIABLES
    client,          \* the ApiClient: constructed, with a session key or not
    auth,            \* this.auth: the token (0 for null) and where expiresAt is
    authMutex,       \* this.authMutex: who is inside, who waits, in order
    calls,           \* caller -> its call of authorizePayment/reportPaymentEvent
    fetched,         \* how many nonce and login requests were sent
    authEvents       \* what else happened: failures, expiries, clearAuth

authVars == <<client, auth, authMutex, calls, fetched, authEvents>>

Callers == 1..MaxCallers
NoToken == 0
NoAuth == [token |-> NoToken, expiresAt |-> "null"]
Idle == [op |-> "none", pc |-> "idle", token |-> NoToken, waited |-> FALSE]

AuthInit ==
    /\ client = [constructed |-> FALSE, sessionKey |-> FALSE]
    /\ auth = NoAuth
    /\ authMutex = [inside |-> {}, queue |-> <<>>]
    /\ calls = [c \in Callers |-> Idle]
    /\ fetched = [nonce |-> 0, login |-> 0]
    /\ authEvents = [failed |-> 0, reset |-> 0]

\* new ApiClient(options)
NewApiClient(sessionKey) ==
    /\ ~client.constructed
    /\ client' = [constructed |-> TRUE, sessionKey |-> sessionKey]
    /\ UNCHANGED <<auth, authMutex, calls, fetched, authEvents>>

\* isAuthenticated()
isAuthenticated == auth.token # NoToken /\ auth.expiresAt = "future"

\* authorizePayment or reportPaymentEvent is called: ensureAuthenticated
\* asks for the mutex.
Call(c, op) ==
    /\ client.constructed
    /\ calls[c].pc = "idle"
    /\ calls' = [calls EXCEPT ![c] = [op |-> op, pc |-> "queued", token |-> NoToken,
                                      waited |-> authMutex.inside # {}]]
    /\ authMutex' = [authMutex EXCEPT !.queue = Append(@, c)]
    /\ UNCHANGED <<client, auth, fetched, authEvents>>

\* runExclusive lets the first waiting caller in when nobody is inside.
CanEnterAnyTime(c) == authMutex.queue # <<>> /\ Head(authMutex.queue) = c
CanEnter(c) ==
    /\ authMutex.inside = {}
    /\ authMutex.queue # <<>>
    /\ Head(authMutex.queue) = c

\* The caller leaves the mutex and authorizePayment/reportPaymentEvent sends
\* its request with the token it reads from this.auth.
Proceed(c, token) ==
    calls' = [calls EXCEPT ![c].pc = "request", ![c].token = token]

\* The caller leaves with the error performAuthentication threw.
Throw(c) ==
    /\ calls' = [calls EXCEPT ![c].pc = "threw"]
    /\ authEvents' = [authEvents EXCEPT !.failed = @ + 1]

\* The callback of runExclusive starts in caller c.
Enter(c) ==
    /\ calls[c].pc = "queued"
    /\ CanEnter(c)
    /\ IF isAuthenticated
       THEN /\ Proceed(c, auth.token)
            /\ authMutex' = [authMutex EXCEPT !.queue = Tail(@)]
            /\ UNCHANGED <<fetched, authEvents>>
       ELSE IF ~client.sessionKey
       THEN /\ Throw(c)
            /\ authMutex' = [authMutex EXCEPT !.queue = Tail(@)]
            /\ UNCHANGED fetched
       ELSE /\ calls' = [calls EXCEPT ![c].pc = "nonce"]
            /\ authMutex' = [authMutex EXCEPT !.queue = Tail(@), !.inside = @ \cup {c}]
            /\ fetched' = [fetched EXCEPT !.nonce = @ + 1]
            /\ UNCHANGED authEvents
    /\ UNCHANGED <<client, auth>>

\* A step of performAuthentication settles in caller c: the nonce request,
\* signMessage, or the login request.
AuthenticationSettles(c, outcome) ==
    /\ calls[c].pc \in {"nonce", "sign", "login"}
    /\ IF outcome # "ok"
       THEN /\ Throw(c)
            /\ authMutex' = [authMutex EXCEPT !.inside = @ \ {c}]
            /\ UNCHANGED <<auth, fetched>>
       ELSE IF calls[c].pc = "nonce"
       THEN /\ calls' = [calls EXCEPT ![c].pc = "sign"]
            /\ UNCHANGED <<auth, authMutex, fetched, authEvents>>
       ELSE IF calls[c].pc = "sign"
       THEN /\ calls' = [calls EXCEPT ![c].pc = "login"]
            /\ fetched' = [fetched EXCEPT !.login = @ + 1]
            /\ UNCHANGED <<auth, authMutex, authEvents>>
       ELSE /\ auth' = [token |-> fetched.login, expiresAt |-> "future"]
            /\ Proceed(c, fetched.login)
            /\ authMutex' = [authMutex EXCEPT !.inside = @ \ {c}]
            /\ UNCHANGED <<fetched, authEvents>>
    /\ UNCHANGED client

\* The authorize or events request of caller c settles.
RequestSettles(c, outcome) ==
    /\ calls[c].pc = "request"
    /\ calls' = [calls EXCEPT ![c].pc = IF outcome = "ok" THEN "returned" ELSE "threw"]
    /\ UNCHANGED <<client, auth, authMutex, fetched, authEvents>>

\* this.auth.expiresAt > new Date() stops holding, or clearAuth() is called.
AuthReset(how) ==
    /\ authEvents.reset < MaxResets
    /\ IF how = "clearAuth" THEN auth' = NoAuth
       ELSE auth.expiresAt = "future" /\ auth' = [auth EXCEPT !.expiresAt = "past"]
    /\ authEvents' = [authEvents EXCEPT !.reset = @ + 1]
    /\ UNCHANGED <<client, authMutex, calls, fetched>>

(* ------------------------------ MCP client with payment retry -------- *)
\* Client.callTool and Client.readResource: withPaymentRetry around the
\* operation of the MCP client.
MaxClientCalls == 2

VARIABLES
    retryCalls       \* call -> where withPaymentRetry is and what it did so far

mcpClientVars == <<retryCalls>>

ClientCalls == 1..MaxClientCalls

\* params._meta: absent, or an object with some fields.
NoFields == [k \in {} |-> ""]
Metas == {[present |-> FALSE, fields |-> NoFields],
          [present |-> TRUE, fields |-> NoFields],
          [present |-> TRUE, fields |-> [k \in {"progressToken"} |-> "token"]],
          [present |-> TRUE, fields |-> [k \in {"x402/payment"} |-> "stale payment"]]}
NoParams == [name |-> "", _meta |-> [present |-> FALSE, fields |-> NoFields]]
OpParams == [name : {"op"}, _meta : Metas]

\* What an attempt of the operation, or a call of the treasurer, ends with: a
\* result or an error object. origin tells the objects apart.
NoData == [kind |-> "undefined", accepts |-> 0]
X402Data == [kind |-> "x402", accepts |-> 1]
NoOutcome == [kind |-> "none", origin |-> "", class |-> "", code |-> 0, data |-> NoData]
Result(origin) == [kind |-> "result", origin |-> origin, class |-> "", code |-> 0, data |-> NoData]
McpError(origin, code, data) ==
    [kind |-> "error", origin |-> origin, class |-> "McpError", code |-> code, data |-> data]
PlainError(origin) ==
    [kind |-> "error", origin |-> origin, class |-> "Error", code |-> 0, data |-> NoData]
OperationOutcomes(origin) ==
    {Result(origin), PlainError(origin),
     McpError(origin, 402, X402Data),
     McpError(origin, 402, NoData),
     McpError(origin, 402, [kind |-> "other", accepts |-> 0]),
     McpError(origin, 0 - 32603, X402Data)}

\* The authorization the treasurer returns.
TheAuthorization == [payment |-> "payment", authorizationId |-> "authorization"]

NotCalledYet ==
    [method |-> "", params |-> NoParams, pc |-> "idle",
     first |-> NoOutcome, decision |-> "", sending |-> "", retry |-> NoOutcome,
     attempts |-> <<>>, statuses |-> <<>>, required |-> 0, got |-> NoOutcome]

McpClientInit == retryCalls = [i \in ClientCalls |-> NotCalledYet]

\* asX402Response(error.data)
asX402Response(data) == IF data.kind = "x402" THEN data ELSE NoData

\* x402DataFromError(error); NoData stands for null.
x402DataFromErrorAnyCode(error) ==
    IF error.class # "McpError" THEN NoData
    ELSE IF error.data.kind # "undefined" THEN asX402Response(error.data)
    ELSE NoData
x402DataFromError(error) ==
    IF error.class # "McpError" \/ error.code # 402 THEN NoData
    ELSE IF error.data.kind # "undefined" THEN asX402Response(error.data)
    ELSE NoData

\* paramsWithPayment of decidePayment
ParamsUnchanged(params, authorization) == params
ParamsWithPayment(params, authorization) ==
    LET baseMeta == IF params._meta.present THEN params._meta.fields ELSE NoFields
    IN [params EXCEPT !._meta =
           [present |-> TRUE,
            fields |-> [k \in DOMAIN baseMeta \cup {"x402/payment"} |->
                           IF k = "x402/payment" THEN authorization.payment
                           ELSE baseMeta[k]]]]

\* callTool / readResource: withPaymentRetry calls the operation.
withPaymentRetry(i, method, params) ==
    /\ retryCalls[i].pc = "idle"
    /\ retryCalls' = [retryCalls EXCEPT ![i] =
          [NotCalledYet EXCEPT !.method = method, !.params = params, !.pc = "first",
                               !.attempts = <<params>>]]

\* withPaymentRetry returns or throws.
Ends(call, outcome) == [call EXCEPT !.pc = "done", !.got = outcome]

\* The first attempt settles.
FirstSettles(call, outcome) ==
    IF outcome.kind = "result" THEN Ends([call EXCEPT !.first = outcome], outcome)
    ELSE IF x402DataFromError(outcome) = NoData
    THEN Ends([call EXCEPT !.first = outcome], outcome)
    ELSE [call EXCEPT !.first = outcome, !.pc = "onPaymentRequired", !.required = @ + 1]

\* The retry settles.
RetrySettles(call, outcome) ==
    IF outcome.kind = "result"
    THEN Ends([call EXCEPT !.retry = outcome, !.statuses = Append(@, "accepted")], outcome)
    ELSE Ends([call EXCEPT !.retry = outcome,
                           !.statuses = Append(@, IF x402DataFromError(outcome) # NoData
                                                  THEN "rejected" ELSE "error")],
              outcome)

\* operation(params) settles in call i.
OperationSettles(i, outcome) ==
    /\ retryCalls[i].pc \in {"first", "retry"}
    /\ outcome.origin = retryCalls[i].pc
    /\ retryCalls' = [retryCalls EXCEPT ![i] =
          IF @.pc = "first" THEN FirstSettles(@, outcome) ELSE RetrySettles(@, outcome)]

\* treasurer.onPaymentRequired settles in decidePayment.
DecidePaymentSettles(i, decision) ==
    /\ retryCalls[i].pc = "onPaymentRequired"
    /\ retryCalls' = [retryCalls EXCEPT ![i] =
          CASE decision = "null" -> Ends([@ EXCEPT !.decision = decision], @.first)
            [] decision = "throw" ->
                  Ends([@ EXCEPT !.decision = decision], PlainError("onPaymentRequired"))
            [] decision = "authorization" ->
                  [@ EXCEPT !.decision = decision, !.pc = "sending",
                            !.statuses = Append(@, "sending")]]

\* The awaited treasurer.onStatus("sending", authorization) settles.
SendingSettles(i, outcome) ==
    /\ retryCalls[i].pc = "sending"
    /\ retryCalls' = [retryCalls EXCEPT ![i] =
          IF outcome = "resolves"
          THEN [@ EXCEPT !.sending = outcome, !.pc = "retry",
                         !.attempts = Append(@, ParamsWithPayment(retryCalls[i].params,
                                                                  TheAuthorization))]
          ELSE Ends([@ EXCEPT !.sending = outcome,
                              !.statuses = Append(@, IF x402DataFromError(PlainError("onStatus"))
                                                           # NoData
                                                     THEN "rejected" ELSE "error")],
                    PlainError("onStatus"))]

(* ------------------------------ FastMCP payment middleware ----------- *)
\* withX402Payment(options)(execute): the calls of the wrapped execute
\* function.
MaxToolCalls == 2

VARIABLES
    toolCalls        \* call -> where the wrapped function is and what it did

middlewareVars == <<toolCalls>>

ToolCalls == 1..MaxToolCalls

\* context.requestMetadata
RequestMetadatas == {"no metadata", "no payment", "payment"}
\* What onExecute settles with.
OnExecuteOutcomes == {"throws", "null", "requirements A", "requirements B"}

\* What onPayment settles with: it throws, returns nothing, or returns a
\* settle response.
NoResponse == [present |-> FALSE, success |-> FALSE, errorReason |-> "undefined"]
SettleResponses == [present : {TRUE}, success : BOOLEAN, errorReason : {"undefined", "insufficient_funds"}]
NotSettled == [kind |-> "none", message |-> "", response |-> NoResponse]
OnPaymentOutcomes ==
    [kind : {"throws"}, message : {"", "invalid payment"}, response : {NoResponse}]
    \cup [kind : {"returns"}, message : {""}, response : {NoResponse} \cup SettleResponses]

\* What execute settles with: it throws, or returns nothing, a string, one
\* content item, or a content result with or without _meta.
NoToolMeta == [present |-> FALSE, other |-> "undefined", paymentResponse |-> NoResponse]
ToolResult(shape, content, meta) == [shape |-> shape, content |-> content, _meta |-> meta]
NoToolResult == ToolResult("none", <<>>, NoToolMeta)
ExecuteResults ==
    {ToolResult("undefined", <<>>, NoToolMeta),
     ToolResult("string", <<"text">>, NoToolMeta),
     ToolResult("content", <<"image">>, NoToolMeta),
     ToolResult("content result", <<"a", "b">>, NoToolMeta),
     ToolResult("content result", <<"a">>,
                [present |-> TRUE, other |-> "kept", paymentResponse |-> NoResponse])}
ExecuteOutcomes == [kind : {"returns"}, result : ExecuteResults]
                      \cup [kind : {"throws"}, result : {NoToolResult}]

\* The data of the error createPaymentError builds.
NoErrorData == [code |-> 0, x402Version |-> 0, accepts |-> <<>>, error |-> "undefined",
                paymentResponse |-> NoResponse]
Truthy(text) == text \notin {"undefined", ""}
createPaymentError(requirements, errorReason, paymentResponse) ==
    [code |-> 402, x402Version |-> 1, accepts |-> <<requirements>>,
     error |-> IF Truthy(errorReason) THEN errorReason ELSE "undefined",
     paymentResponse |-> paymentResponse]

\* normalizeToolResult(result)
normalizeToolResult(result) ==
    CASE result.shape = "undefined" -> ToolResult("content result", <<>>, NoToolMeta)
      [] result.shape = "string" -> ToolResult("content result", <<"text: " \o result.content[1]>>, NoToolMeta)
      [] result.shape = "content" -> ToolResult("content result", result.content, NoToolMeta)
      [] OTHER -> result

\* normalizedResult._meta = {...normalizedResult._meta, "x402/payment-response": ...}
WithPaymentResponse(result, response) ==
    [result EXCEPT !._meta = [@ EXCEPT !.present = TRUE, !.paymentResponse = response]]

\* onPaymentResp && !onPaymentResp.success
PaymentRefusedNever(response) == FALSE
PaymentRefused(response) == response.present /\ ~response.success

NoToolOutcome == [kind |-> "none", origin |-> "", result |-> NoToolResult, data |-> NoErrorData]
Returned(result) == [kind |-> "result", origin |-> "execute", result |-> result, data |-> NoErrorData]
Raised(origin) == [kind |-> "error", origin |-> origin, result |-> NoToolResult, data |-> NoErrorData]
PaymentError(data) == [kind |-> "payment error", origin |-> "middleware", result |-> NoToolResult,
                       data |-> data]

NoToolCall ==
    [pc |-> "idle", metadata |-> "", requirements |-> "unset", onPayment |-> NotSettled,
     executed |-> 0, paid |-> 0, got |-> NoToolOutcome]

MiddlewareInit == toolCalls = [i \in ToolCalls |-> NoToolCall]

\* The wrapped function is called: it reads the payment and calls onExecute.
ToolCall(i, metadata) ==
    /\ toolCalls[i].pc = "idle"
    /\ toolCalls' = [toolCalls EXCEPT ![i] = [NoToolCall EXCEPT !.pc = "onExecute",
                                                                  !.metadata = metadata]]

\* The wrapped function returns or throws.
Finished(call, outcome) == [call EXCEPT !.pc = "done", !.got = outcome]

\* options.onExecute settles.
OnExecuteSettles(i, outcome) ==
    /\ toolCalls[i].pc = "onExecute"
    /\ toolCalls' = [toolCalls EXCEPT ![i] =
          IF outcome = "throws" THEN Finished(@, Raised("onExecute"))
          ELSE IF outcome = "null"
          THEN [@ EXCEPT !.requirements = outcome, !.pc = "execute", !.executed = @ + 1]
          ELSE IF @.metadata # "payment"
          THEN Finished([@ EXCEPT !.requirements = outcome],
                        PaymentError(createPaymentError(outcome, "undefined", NoResponse)))
          ELSE [@ EXCEPT !.requirements = outcome, !.pc = "onPayment", !.paid = @ + 1]]

\* options.onPayment settles.
OnPaymentSettles(i, outcome) ==
    /\ toolCalls[i].pc = "onPayment"
    /\ toolCalls' = [toolCalls EXCEPT ![i] =
          IF outcome.kind = "throws"
          THEN Finished([@ EXCEPT !.onPayment = outcome],
                        PaymentError(createPaymentError(@.requirements, outcome.message,
                                                        NoResponse)))
          ELSE IF PaymentRefused(outcome.response)
          THEN Finished([@ EXCEPT !.onPayment = outcome],
                        PaymentError(createPaymentError(@.requirements,
                                                        outcome.response.errorReason,
                                                        outcome.response)))
          ELSE [@ EXCEPT !.onPayment = outcome, !.pc = "execute", !.executed = @ + 1]]

\* execute settles.
ExecuteSettles(i, outcome) ==
    /\ toolCalls[i].pc = "execute"
    /\ toolCalls' = [toolCalls EXCEPT ![i] =
          IF outcome.kind = "throws" THEN Finished(@, Raised("execute"))
          ELSE IF @.requirements = "null" \/ ~@.onPayment.response.present
          THEN Finished(@, Returned(outcome.result))
          ELSE Finished(@, Returned(WithPaymentResponse(normalizeToolResult(outcome.result),
                                                        @.onPayment.response)))]

(* ------------------------------ the request with payment ------------ *)
\* X402Middleware.onMessage for a payment-required response, with the
\* request as the object it is: id, method, params and params._meta.
VARIABLES
    lastOnMessage    \* the last such call: its arguments and what it returned

protocolVars == <<lastOnMessage>>

\* An object: the keys it has and their values.
EmptyObject == [k \in {} |-> ""]
Object(keys, value(_)) == [k \in keys |-> value(k)]
MetaValue(k) == "buyer's " \o k
ParamValue(k) == "value of " \o k
MetaObjects ==
    {Object(keys, MetaValue) :
        keys \in SUBSET {"progressToken", "x402/payment", "ampersend/paymentId"}}
ParamObjects == {Object(keys, ParamValue) : keys \in {{}, {"name"}, {"name", "arguments"}}}

\* request.params: absent, or an object with its own keys and, possibly, _meta.
NoParamsObject == [present |-> FALSE, other |-> EmptyObject, hasMeta |-> FALSE, _meta |-> EmptyObject]
ParamsObjects ==
    {NoParamsObject}
    \cup [present : {TRUE}, other : ParamObjects, hasMeta : {FALSE}, _meta : {EmptyObject}]
    \cup [present : {TRUE}, other : ParamObjects, hasMeta : {TRUE}, _meta : MetaObjects]
Requests == [id : {NumId(1), StrId(1)}, method : {"tools/call", "resources/read"},
             params : ParamsObjects]
NoRequest == [id |-> NoId, method |-> "", params |-> NoParamsObject]

\* What treasurer.onPaymentRequired returns.
NoAuthorization == [payment |-> "", authorizationId |-> ""]
Authorizations == {[payment |-> "payment A", authorizationId |-> "uuid A"],
                   [payment |-> "payment B", authorizationId |-> "uuid B"]}

ProtocolInit ==
    lastOnMessage = [request |-> NoRequest, authorization |-> NoAuthorization,
                     returned |-> "nothing yet", messageWithPayment |-> NoRequest,
                     requestAfter |-> NoRequest]

\* {...object, [k]: v}
Spread(object, k, v) == [x \in DOMAIN object \cup {k} |-> IF x = k THEN v ELSE object[x]]

\* buildMessageWithPayment(message, payment, paymentId).messageWithPayment
MessageWithOnlyPayment(message, payment, paymentId) ==
    [message EXCEPT !.params =
        [present |-> TRUE, other |-> message.params.other, hasMeta |-> TRUE,
         _meta |-> Spread(Spread(EmptyObject, "x402/payment", payment),
                          "ampersend/paymentId", paymentId)]]
messageWithPayment(message, payment, paymentId) ==
    LET baseParams == IF message.params.present THEN message.params
                      ELSE [NoParamsObject EXCEPT !.hasMeta = TRUE]
        baseParamsMeta == IF baseParams.hasMeta THEN baseParams._meta ELSE EmptyObject
    IN [message EXCEPT !.params =
           [present |-> TRUE, other |-> baseParams.other, hasMeta |-> TRUE,
            _meta |-> Spread(Spread(baseParamsMeta, "x402/payment", payment),
                             "ampersend/paymentId", paymentId)]]

\* request.params?._meta?.["x402/payment"]
CarriesPayment(request) ==
    request.params.present /\ request.params.hasMeta
        /\ "x402/payment" \in DOMAIN request.params._meta

\* onMessage(request, response) for a payment-required response, from line 50
\* to its return: decision is what onPaymentRequired returns ("null" or an
\* authorization), sending how onStatus("sending") ends.
OnMessagePaymentRequired(request, decision, sending) ==
    lastOnMessage' =
        IF CarriesPayment(request)
        THEN [request |-> request, authorization |-> NoAuthorization, returned |-> "void",
              messageWithPayment |-> NoRequest, requestAfter |-> request]
        ELSE IF decision \notin Authorizations
        THEN [request |-> request, authorization |-> NoAuthorization, returned |-> "void",
              messageWithPayment |-> NoRequest, requestAfter |-> request]
        ELSE IF sending = "throw"
        THEN [request |-> request, authorization |-> decision, returned |-> "threw",
              messageWithPayment |-> NoRequest, requestAfter |-> request]
        ELSE [request |-> request, authorization |-> decision, returned |-> "request",
              messageWithPayment |->
                  messageWithPayment(request, decision.payment, decision.authorizationId),
              requestAfter |-> request]

(* ------------------------------ naive treasurer --------------------- *)
\* NaiveTreasurer over a SmartAccountWallet, called by the middleware for a
\* payment-required response to a request that carries no payment; the bridge
\* then sends the retry or forwards the response.
MaxNaiveCalls == 2

VARIABLES
    naiveCalls    \* one record per call of onPaymentRequired, in call order

naiveVars == <<naiveCalls>>

\* A payment requirement: its scheme, and the amount that tells it apart.
NoRequirement == [scheme |-> "", maxAmountRequired |-> 0]
Requirement == {[scheme |-> "exact", maxAmountRequired |-> 1],
                [scheme |-> "upto", maxAmountRequired |-> 2],
                [scheme |-> "exact", maxAmountRequired |-> 3]}
RequirementArrays ==
    {<<>>} \cup {<<r>> : r \in Requirement}
           \cup {<<pair[1], pair[2]>> :
                    pair \in {p \in Requirement \X Requirement : p[1] # p[2]}}

NaiveInit == naiveCalls = <<>>

\* requirements[0]
LastRequirement(requirements) == requirements[Len(requirements)]
FirstRequirement(requirements) == requirements[1]

\* A call that has returned null: the middleware returns nothing and the
\* bridge forwards the response.
ReturnedNull(requirements) ==
    [requirements |-> requirements, createPayment |-> <<>>, state |-> "returned null",
     payment |-> NoRequirement, retrySent |-> FALSE, forwarded |-> TRUE]

\* onPaymentRequired(requirements) up to its first await.
NaiveOnPaymentRequired(requirements) ==
    /\ Len(naiveCalls) < MaxNaiveCalls
    /\ naiveCalls' = Append(naiveCalls,
          IF Len(requirements) = 0
          THEN ReturnedNull(requirements)
          ELSE [requirements |-> requirements,
                createPayment |-> <<FirstRequirement(requirements)>>,
                state |-> "awaiting wallet", payment |-> NoRequirement,
                retrySent |-> FALSE, forwarded |-> FALSE])

\* How SmartAccountWallet.createPayment(requirements) can end.
CreatePaymentOutcomes(requirement) ==
    IF requirement.scheme # "exact" THEN {"WalletError"} ELSE {"payment", "WalletError"}

\* wallet.createPayment settles: the treasurer returns an authorization and the
\* bridge sends the retry, or the error reaches the bridge's catch, which
\* forwards the response.
CreatePaymentSettles(i, outcome) ==
    /\ i \in DOMAIN naiveCalls
    /\ naiveCalls[i].state = "awaiting wallet"
    /\ outcome \in CreatePaymentOutcomes(naiveCalls[i].createPayment[1])
    /\ naiveCalls' = [naiveCalls EXCEPT ![i] =
          IF outcome = "payment"
          THEN [@ EXCEPT !.state = "returned authorization",
                         !.payment = naiveCalls[i].createPayment[1],
                         !.retrySent = TRUE]
          ELSE [@ EXCEPT !.state = "threw", !.forwarded = TRUE]]

(* ------------------------------ exact payments ----------------------- *)
\* createExactPayment of the smart-account wallet: the two reads of the clock
\* and the payload built from them.
MaxClockSteps == 4

VARIABLES
    dateNow,         \* Date.now(), in milliseconds
    exactCall,       \* the call of createExactPayment in progress
    paymentPayload   \* what the last call returned

exactVars == <<dateNow, exactCall, paymentPayload>>

ClockStart == 1000 * 1000
NoExactCall == [pc |-> "none", maxTimeoutSeconds |-> 0, validAfter |-> 0, validBefore |-> 0]
NoPayload == [made |-> FALSE, maxTimeoutSeconds |-> 0, validAfter |-> 0, validBefore |-> 0]

ExactInit ==
    /\ dateNow = ClockStart
    /\ exactCall = NoExactCall
    /\ paymentPayload = NoPayload

\* requirements.maxTimeoutSeconds of the requirements a seller sends.
MaxTimeouts == {0, 60, 300}

\* Time passes: half a second at each step.
ClockAdvances ==
    /\ dateNow < ClockStart + MaxClockSteps * 500
    /\ dateNow' = dateNow + 500
    /\ UNCHANGED <<exactCall, paymentPayload>>

\* Math.floor(Date.now() / 1000)
NowSeconds == dateNow \div 1000

\* The ten minutes before the first read.
GraceSeconds == 600

\* const validBefore = BigInt(Math.floor(Date.now() / 1000) + maxTimeoutSeconds)
ValidBefore(call) == NowSeconds + call.maxTimeoutSeconds

\* createExactPayment is called: the nonce and validAfter.
createExactPayment(maxTimeoutSeconds) ==
    /\ exactCall.pc = "none"
    /\ exactCall' = [pc |-> "validBefore", maxTimeoutSeconds |-> maxTimeoutSeconds,
                     validAfter |-> NowSeconds - GraceSeconds, validBefore |-> 0]
    /\ UNCHANGED <<dateNow, paymentPayload>>

\* The next statement: validBefore, then the call of signERC3009Authorization.
ReadValidBefore ==
    /\ exactCall.pc = "validBefore"
    /\ exactCall' = [exactCall EXCEPT !.pc = "sign", !.validBefore = ValidBefore(exactCall)]
    /\ UNCHANGED <<dateNow, paymentPayload>>

\* signERC3009Authorization settles: the payload is returned, or the call
\* throws.
SignatureSettles(outcome) ==
    /\ exactCall.pc = "sign"
    /\ exactCall' = NoExactCall
    /\ paymentPayload' = IF outcome = "ok"
                         THEN [made |-> TRUE,
                               maxTimeoutSeconds |-> exactCall.maxTimeoutSeconds,
                               validAfter |-> exactCall.validAfter,
                               validBefore |-> exactCall.validBefore]
                         ELSE NoPayload
    /\ UNCHANGED dateNow

(* ------------------------------ specification -------------------------- *)
vars == <<bridgeVars, validationVars, serverVars, cliVars, treasurerVars, exactVars, authVars, mcpClientVars, middlewareVars, protocolVars, upstreamVars, naiveVars>>

Init == BridgeInit /\ ValidationInit /\ ServerInit /\ CliInit /\ TreasurerInit /\ ExactInit /\ AuthInit /\ McpClientInit /\ MiddlewareInit /\ ProtocolInit /\ UpstreamInit /\ NaiveInit

\* The bridge of one session.
Next ==
    \/ (\E id \in BuyerIds : LeftOnMessage(id))
          /\ UNCHANGED <<validationVars, serverVars, cliVars, treasurerVars, exactVars, authVars, mcpClientVars, middlewareVars, protocolVars, upstreamVars, naiveVars>>
    \/ (\E req \in upInbox, kind \in Kinds : RightOnMessage(req, kind))
          /\ UNCHANGED <<validationVars, serverVars, cliVars, treasurerVars, exactVars, authVars, mcpClientVars, middlewareVars, protocolVars, upstreamVars, naiveVars>>
    \/ (\E t \in tasks, outcome \in {"null", "throw", "authorization"} :
           PaymentRequiredReturns(t, outcome))
          /\ UNCHANGED <<validationVars, serverVars, cliVars, treasurerVars, exactVars, authVars, mcpClientVars, middlewareVars, protocolVars, upstreamVars, naiveVars>>
    \/ (\E t \in tasks, outcome \in {"return", "throw"} : OnStatusReturns(t, outcome))
          /\ UNCHANGED <<validationVars, serverVars, cliVars, treasurerVars, exactVars, authVars, mcpClientVars, middlewareVars, protocolVars, upstreamVars, naiveVars>>
    \/ Close /\ UNCHANGED <<validationVars, serverVars, cliVars, treasurerVars, exactVars, authVars, mcpClientVars, middlewareVars, protocolVars, upstreamVars, naiveVars>>
    \/ CloseAgain /\ UNCHANGED <<validationVars, serverVars, cliVars, treasurerVars, exactVars, authVars, mcpClientVars, middlewareVars, protocolVars, upstreamVars, naiveVars>>
    \/ (\E side \in {"left", "right"}, outcome \in {"fulfilled", "rejected"} :
           TransportCloseSettles(side, outcome))
          /\ UNCHANGED <<validationVars, serverVars, cliVars, treasurerVars, exactVars, authVars, mcpClientVars, middlewareVars, protocolVars, upstreamVars, naiveVars>>
    \/ DoClose /\ UNCHANGED <<validationVars, serverVars, cliVars, treasurerVars, exactVars, authVars, mcpClientVars, middlewareVars, protocolVars, upstreamVars, naiveVars>>
    \/ (\E side \in {"left", "right"} : TransportOnerror(side))
          /\ UNCHANGED <<validationVars, serverVars, cliVars, treasurerVars, exactVars, authVars, mcpClientVars, middlewareVars, protocolVars, upstreamVars, naiveVars>>

Spec == Init /\ [][Next]_vars

\* Calls of validateTargetURL.
ValidationNext ==
    (\E targetUrl \in Targets : Validate(targetUrl))
          /\ UNCHANGED <<bridgeVars, serverVars, cliVars, treasurerVars, exactVars, authVars, mcpClientVars, middlewareVars, protocolVars, upstreamVars, naiveVars>>

ValidationSpec == Init /\ [][ValidationNext]_vars

\* The proxy server and the sessions it holds.
ServerNext ==
    \/ (\E targetUrl \in QueryTargets, header \in Headers, body \in Bodies :
           Post(targetUrl, header, body))
          /\ UNCHANGED <<bridgeVars, validationVars, cliVars, treasurerVars, exactVars, authVars, mcpClientVars, middlewareVars, protocolVars, upstreamVars, naiveVars>>
    \/ (\E header \in Headers : Delete(header))
          /\ UNCHANGED <<bridgeVars, validationVars, cliVars, treasurerVars, exactVars, authVars, mcpClientVars, middlewareVars, protocolVars, upstreamVars, naiveVars>>
    \/ (\E sid \in Sids : TransportOnclose(sid))
          /\ UNCHANGED <<bridgeVars, validationVars, cliVars, treasurerVars, exactVars, authVars, mcpClientVars, middlewareVars, protocolVars, upstreamVars, naiveVars>>
    \/ (\E sid \in Sids : BridgeOnclose(sid))
          /\ UNCHANGED <<bridgeVars, validationVars, cliVars, treasurerVars, exactVars, authVars, mcpClientVars, middlewareVars, protocolVars, upstreamVars, naiveVars>>
    \/ (\E sid \in Sids : DeleteResumes(sid))
          /\ UNCHANGED <<bridgeVars, validationVars, cliVars, treasurerVars, exactVars, authVars, mcpClientVars, middlewareVars, protocolVars, upstreamVars, naiveVars>>
    \/ (\E sid \in Sids : UpstreamReply(sid))
          /\ UNCHANGED <<bridgeVars, validationVars, cliVars, treasurerVars, exactVars, authVars, mcpClientVars, middlewareVars, protocolVars, upstreamVars, naiveVars>>
    \/ Stop /\ UNCHANGED <<bridgeVars, validationVars, cliVars, treasurerVars, exactVars, authVars, mcpClientVars, middlewareVars, protocolVars, upstreamVars, naiveVars>>
    \/ StopResumes /\ UNCHANGED <<bridgeVars, validationVars, cliVars, treasurerVars, exactVars, authVars, mcpClientVars, middlewareVars, protocolVars, upstreamVars, naiveVars>>

ServerSpec == Init /\ [][ServerNext]_vars

\* A run of the command line.
CliNext ==
    \/ (\E env \in Environments, cliPort \in PortArguments : Exec(env, cliPort))
          /\ UNCHANGED <<bridgeVars, validationVars, serverVars, treasurerVars, exactVars, authVars, mcpClientVars, middlewareVars, protocolVars, upstreamVars, naiveVars>>
    \/ Main /\ UNCHANGED <<bridgeVars, validationVars, serverVars, treasurerVars, exactVars, authVars, mcpClientVars, middlewareVars, protocolVars, upstreamVars, naiveVars>>

CliSpec == Init /\ [][CliNext]_vars

\* The calls of an Ampersend treasurer.
TreasurerNext ==
    \/ (\E sessionKey \in BOOLEAN : createAmpersendTreasurer(sessionKey))
          /\ UNCHANGED <<bridgeVars, validationVars, serverVars, cliVars, exactVars, authVars, mcpClientVars, middlewareVars, protocolVars, upstreamVars, naiveVars>>
    \/ TokenExpires /\ UNCHANGED <<bridgeVars, validationVars, serverVars, cliVars, exactVars, authVars, mcpClientVars, middlewareVars, protocolVars, upstreamVars, naiveVars>>
    \/ (\E op \in {"onPaymentRequired", "onStatus"} : Invoke(op))
          /\ UNCHANGED <<bridgeVars, validationVars, serverVars, cliVars, exactVars, authVars, mcpClientVars, middlewareVars, protocolVars, upstreamVars, naiveVars>>
    \/ EnsureAuthenticated /\ UNCHANGED <<bridgeVars, validationVars, serverVars, cliVars, exactVars, authVars, mcpClientVars, middlewareVars, protocolVars, upstreamVars, naiveVars>>
    \/ (\E outcome \in {"ok", "failed"} : SignSettles(outcome))
          /\ UNCHANGED <<bridgeVars, validationVars, serverVars, cliVars, exactVars, authVars, mcpClientVars, middlewareVars, protocolVars, upstreamVars, naiveVars>>
    \/ (\E outcome \in FetchOutcomes, response \in AuthResponses :
           FetchSettles(outcome, response))
          /\ UNCHANGED <<bridgeVars, validationVars, serverVars, cliVars, exactVars, authVars, mcpClientVars, middlewareVars, protocolVars, upstreamVars, naiveVars>>
    \/ (\E outcome \in {"ok", "failed"} : WalletSettles(outcome))
          /\ UNCHANGED <<bridgeVars, validationVars, serverVars, cliVars, exactVars, authVars, mcpClientVars, middlewareVars, protocolVars, upstreamVars, naiveVars>>

TreasurerSpec == Init /\ [][TreasurerNext]_vars

\* The calls of createExactPayment while time passes.
ExactNext ==
    \/ ClockAdvances
          /\ UNCHANGED <<bridgeVars, validationVars, serverVars, cliVars, treasurerVars, authVars, mcpClientVars, middlewareVars, protocolVars, upstreamVars, naiveVars>>
    \/ (\E maxTimeoutSeconds \in MaxTimeouts : createExactPayment(maxTimeoutSeconds))
          /\ UNCHANGED <<bridgeVars, validationVars, serverVars, cliVars, treasurerVars, authVars, mcpClientVars, middlewareVars, protocolVars, upstreamVars, naiveVars>>
    \/ ReadValidBefore
          /\ UNCHANGED <<bridgeVars, validationVars, serverVars, cliVars, treasurerVars, authVars, mcpClientVars, middlewareVars, protocolVars, upstreamVars, naiveVars>>
    \/ (\E outcome \in {"ok", "failed"} : SignatureSettles(outcome))
          /\ UNCHANGED <<bridgeVars, validationVars, serverVars, cliVars, treasurerVars, authVars, mcpClientVars, middlewareVars, protocolVars, upstreamVars, naiveVars>>

ExactSpec == Init /\ [][ExactNext]_vars

\* Concurrent calls on one ApiClient.
AuthNext ==
    \/ (\E sessionKey \in BOOLEAN : NewApiClient(sessionKey))
          /\ UNCHANGED <<bridgeVars, validationVars, serverVars, cliVars, treasurerVars, exactVars, mcpClientVars, middlewareVars, protocolVars, upstreamVars, naiveVars>>
    \/ (\E c \in Callers, op \in {"authorizePayment", "reportPaymentEvent"} : Call(c, op))
          /\ UNCHANGED <<bridgeVars, validationVars, serverVars, cliVars, treasurerVars, exactVars, mcpClientVars, middlewareVars, protocolVars, upstreamVars, naiveVars>>
    \/ (\E c \in Callers : Enter(c))
          /\ UNCHANGED <<bridgeVars, validationVars, serverVars, cliVars, treasurerVars, exactVars, mcpClientVars, middlewareVars, protocolVars, upstreamVars, naiveVars>>
    \/ (\E c \in Callers, outcome \in {"ok", "failed"} : AuthenticationSettles(c, outcome))
          /\ UNCHANGED <<bridgeVars, validationVars, serverVars, cliVars, treasurerVars, exactVars, mcpClientVars, middlewareVars, protocolVars, upstreamVars, naiveVars>>
    \/ (\E c \in Callers, outcome \in {"ok", "failed"} : RequestSettles(c, outcome))
          /\ UNCHANGED <<bridgeVars, validationVars, serverVars, cliVars, treasurerVars, exactVars, mcpClientVars, middlewareVars, protocolVars, upstreamVars, naiveVars>>
    \/ (\E how \in {"clearAuth", "expiry"} : AuthReset(how))
          /\ UNCHANGED <<bridgeVars, validationVars, serverVars, cliVars, treasurerVars, exactVars, mcpClientVars, middlewareVars, protocolVars, upstreamVars, naiveVars>>

AuthSpec == Init /\ [][AuthNext]_vars

\* Calls of callTool and readResource on one Client.
ClientNext ==
    \/ (\E i \in ClientCalls, method \in {"tools/call", "resources/read"}, params \in OpParams :
           withPaymentRetry(i, method, params))
          /\ UNCHANGED <<bridgeVars, validationVars, serverVars, cliVars, treasurerVars, exactVars, authVars, middlewareVars, protocolVars, upstreamVars, naiveVars>>
    \/ (\E i \in ClientCalls, outcome \in OperationOutcomes("first") \cup OperationOutcomes("retry") :
           OperationSettles(i, outcome))
          /\ UNCHANGED <<bridgeVars, validationVars, serverVars, cliVars, treasurerVars, exactVars, authVars, middlewareVars, protocolVars, upstreamVars, naiveVars>>
    \/ (\E i \in ClientCalls, decision \in {"null", "throw", "authorization"} :
           DecidePaymentSettles(i, decision))
          /\ UNCHANGED <<bridgeVars, validationVars, serverVars, cliVars, treasurerVars, exactVars, authVars, middlewareVars, protocolVars, upstreamVars, naiveVars>>
    \/ (\E i \in ClientCalls, outcome \in {"resolves", "rejects"} : SendingSettles(i, outcome))
          /\ UNCHANGED <<bridgeVars, validationVars, serverVars, cliVars, treasurerVars, exactVars, authVars, middlewareVars, protocolVars, upstreamVars, naiveVars>>

ClientSpec == Init /\ [][ClientNext]_vars

\* Calls of a tool wrapped by withX402Payment.
MiddlewareNext ==
    \/ (\E i \in ToolCalls, metadata \in RequestMetadatas : ToolCall(i, metadata))
          /\ UNCHANGED <<bridgeVars, validationVars, serverVars, cliVars, treasurerVars, exactVars, authVars, mcpClientVars, protocolVars, upstreamVars, naiveVars>>
    \/ (\E i \in ToolCalls, outcome \in OnExecuteOutcomes : OnExecuteSettles(i, outcome))
          /\ UNCHANGED <<bridgeVars, validationVars, serverVars, cliVars, treasurerVars, exactVars, authVars, mcpClientVars, protocolVars, upstreamVars, naiveVars>>
    \/ (\E i \in ToolCalls, outcome \in OnPaymentOutcomes : OnPaymentSettles(i, outcome))
          /\ UNCHANGED <<bridgeVars, validationVars, serverVars, cliVars, treasurerVars, exactVars, authVars, mcpClientVars, protocolVars, upstreamVars, naiveVars>>
    \/ (\E i \in ToolCalls, outcome \in ExecuteOutcomes : ExecuteSettles(i, outcome))
          /\ UNCHANGED <<bridgeVars, validationVars, serverVars, cliVars, treasurerVars, exactVars, authVars, mcpClientVars, protocolVars, upstreamVars, naiveVars>>

MiddlewareSpec == Init /\ [][MiddlewareNext]_vars

\* Calls of X402Middleware.onMessage with a payment-required response.
ProtocolNext ==
    (\E request \in Requests, decision \in Authorizations \cup {NoAuthorization},
        sending \in {"return", "throw"} :
           OnMessagePaymentRequired(request, decision, sending))
          /\ UNCHANGED <<bridgeVars, validationVars, serverVars, cliVars, treasurerVars, exactVars, authVars, mcpClientVars, middlewareVars, upstreamVars, naiveVars>>

ProtocolSpec == Init /\ [][ProtocolNext]_vars

\* The bridge while both transports stay open, with an upstream that also
\* sends messages of its own accord.
UpstreamNext ==
    \/ (\E id \in BuyerIds : LeftOnMessage(id))
          /\ UNCHANGED <<validationVars, serverVars, cliVars, treasurerVars, exactVars, authVars, mcpClientVars, middlewareVars, protocolVars, upstreamVars, naiveVars>>
    \/ (\E req \in upInbox, kind \in Kinds : RightOnMessage(req, kind))
          /\ UNCHANGED <<validationVars, serverVars, cliVars, treasurerVars, exactVars, authVars, mcpClientVars, middlewareVars, protocolVars, upstreamVars, naiveVars>>
    \/ (\E message \in Unsolicited : UpstreamSends(message))
          /\ UNCHANGED <<validationVars, serverVars, cliVars, treasurerVars, exactVars, authVars, mcpClientVars, middlewareVars, protocolVars, naiveVars>>
    \/ (\E t \in tasks, outcome \in {"null", "throw", "authorization"} :
           PaymentRequiredReturns(t, outcome))
          /\ UNCHANGED <<validationVars, serverVars, cliVars, treasurerVars, exactVars, authVars, mcpClientVars, middlewareVars, protocolVars, upstreamVars, naiveVars>>
    \/ (\E t \in tasks, outcome \in {"return", "throw"} : OnStatusReturns(t, outcome))
          /\ UNCHANGED <<validationVars, serverVars, cliVars, treasurerVars, exactVars, authVars, mcpClientVars, middlewareVars, protocolVars, upstreamVars, naiveVars>>

UpstreamSpec == Init /\ [][UpstreamNext]_vars

\* Calls of NaiveTreasurer.onPaymentRequired.
NaiveNext ==
    \/ (\E requirements \in RequirementArrays : NaiveOnPaymentRequired(requirements))
          /\ UNCHANGED <<bridgeVars, validationVars, serverVars, cliVars, treasurerVars, exactVars, authVars, mcpClientVars, middlewareVars, protocolVars, upstreamVars>>
    \/ (\E i \in DOMAIN naiveCalls, outcome \in {"payment", "WalletError"} :
           CreatePaymentSettles(i, outcome))
          /\ UNCHANGED <<bridgeVars, validationVars, serverVars, cliVars, treasurerVars, exactVars, authVars, mcpClientVars, middlewareVars, protocolVars, upstreamVars>>

NaiveSpec == Init /\ [][NaiveNext]_vars

(* ------------------------------ observations --------------------------- *)
\* The buyer requests the bridge sent upstream.
Forwarded == used \ refused

\* Number of messages with id r the buyer has received.
DeliveredCount(r) == Cardinality({i \in 1..Len(delivered) : delivered[i].id = r})

\* The session is open, upstream has answered every request it received and
\* no treasurer call is outstanding.
Quiescent == closeP = "unset" /\ upInbox = {} /\ tasks = {}

(* ------------------------------ properties ----------------------------- *)

\* C1: every buyer request the bridge forwarded upstream gets exactly one
\* response with its id: never two, and, once upstream has answered every
\* request it received and every treasurer call has returned while the session
\* is open, not zero.
C1_ExactlyOneResponse ==
    \A r \in Forwarded :
        /\ DeliveredCount(r) <= 1
        /\ Quiescent => DeliveredCount(r) = 1

\* C2: the pending-request map never holds more than MAX_PENDING_REQUESTS
\* entries, buyer requests and retries together.
C2_PendingWithinCeiling == Cardinality(Pending) <= MAX_PENDING_REQUESTS

\* C5: no message the buyer receives carries a synthetic
\* "retry_with_payment__" id minted by the bridge: the answer to a retry
\* leaves the bridge with the original id.
C5_RetryAnswersCarryOriginalId ==
    \A i \in 1..Len(delivered) : ~IsSynthetic(delivered[i].id)

\* C8: once the bridge has closed, the middleware's pending-authorizations
\* map is empty.
C8_NoAuthorizationAfterClose == closeP = "settled" => authorizations = {}

\* C10: every buyer request refused at the ceiling is answered to the buyer
\* with an error carrying its id.
C10_RefusalReachesBuyer ==
    \A r \in refused : \E i \in 1..Len(delivered) :
        delivered[i].id = r /\ delivered[i].kind = "error"

\* The requests carrying params._meta["x402/payment"] that the bridge has sent
\* upstream.
PaidSent == {q \in BagToSet(sentRight) : q.payment}

\* The buyer has received a message of kind k with id r.
Received(r, k) == \E i \in 1..Len(delivered) : delivered[i] = [id |-> r, kind |-> k]

\* C3: the bridge sends upstream at most one request carrying "x402/payment"
\* per original buyer request, whatever upstream answers: each paid request is
\* the retry of a buyer request, is sent once, and no buyer request has two.
C3_AtMostOnePaidRetry ==
    \A q \in PaidSent :
        /\ q.originalId \in BuyerIds
        /\ CopiesIn(q, sentRight) = 1
        /\ \A p \in PaidSent : p.originalId = q.originalId => p = q

\* A paid retry has been answered with a payment-required 402, which the
\* buyer received.
C3_Witness ==
    \E q \in PaidSent : q \notin upInbox /\ Received(q.originalId, "pay402")

\* The retry the specification describes for the request of a task: id
\* "retry_with_payment__" followed by the request's id, the request's id saved
\* as the original id, and the payment of the authorization attached.
DescribedRetry(t) ==
    [id |-> [kind |-> "str", pre |-> t.request.id.pre + 1, base |-> t.request.id.base],
     originalId |-> t.request.id, payment |-> TRUE, paymentId |-> t.auth]

C6_DeclineForwards402 ==
    [][\A t \in tasks :
        (t.pc = "onPaymentRequired" /\ t \notin tasks'
            /\ CopiesIn(<<t.request, "null">>, decisions')
                  > CopiesIn(<<t.request, "null">>, decisions)) =>
          /\ authorizations' = authorizations
          /\ statusLog' = statusLog
          /\ sentRight' = sentRight
          /\ upInbox' = upInbox
          /\ requestById' = requestById
          /\ tasks' = tasks \ {t}
          /\ leftOpen => delivered' = Append(delivered, [id |-> t.request.id, kind |-> "pay402"])
    ]_vars

\* The treasurer has declined the 402 for buyer request r and the buyer holds
\* that 402 with id r.
C6_Witness ==
    \E r \in Forwarded :
        /\ BagIn(<<BuyerRequestMsg(r), "null">>, decisions)
        /\ Received(r, "pay402")
        /\ statusLog = EmptyBag

\* C7: when upstream answers a retry q (a request the bridge sent carrying
\* "x402/payment"), onPaymentRequired is not called for it, no entry with q's
\* id stays in the pending map, and a payment-required 402 given in answer is
\* not held back but handed to the buyer with the original id saved in q.
C7_Retry402ReachesBuyer ==
    [][\A q \in upInbox :
        (q.payment /\ q \notin upInbox') =>
          /\ decisions' = decisions
          /\ q.id \notin DOMAIN requestById'
          /\ \A t \in tasks' \ tasks :
                t.pc # "onPaymentRequired" /\ t.response.kind # "pay402"
          /\ \A i \in (Len(delivered) + 1)..Len(delivered') :
                delivered'[i].kind = "pay402" => delivered'[i].id = q.originalId
    ]_vars

\* C9 as stated: a buyer request that arrives when pending holds
\* MAX_PENDING_REQUESTS entries is refused, and the buyer request that follows
\* the removal of a pending entry by an upstream response is accepted.
C9_AcceptedOnceDrained ==
    [][\A id \in used' \ used :
        /\ Cardinality(Pending) >= MAX_PENDING_REQUESTS =>
              id \in refused' /\ requestById' = requestById /\ sentRight' = sentRight
        /\ drained => id \notin refused' /\ id \in DOMAIN requestById'
    ]_vars

\* C9, amended: a buyer request that arrives when pending holds
\* MAX_PENDING_REQUESTS entries or more is refused (not inserted, not sent
\* upstream, the entries unchanged); one that arrives when pending holds fewer
\* is inserted and sent upstream.
C9_AcceptedBelowCeiling ==
    [][\A id \in used' \ used :
        IF Cardinality(Pending) >= MAX_PENDING_REQUESTS
        THEN /\ id \in refused'
             /\ requestById' = requestById
             /\ sentRight' = sentRight
             /\ upInbox' = upInbox
        ELSE /\ refused' = refused
             /\ DOMAIN requestById' = Pending \cup {id}
             /\ requestById'[id] = BuyerRequestMsg(id)
             /\ \A k \in Pending \ {id} : requestById'[k] = requestById[k]
             /\ CopiesIn(BuyerRequestMsg(id), sentRight') = 1
             /\ BuyerRequestMsg(id) \in upInbox'
    ]_vars

\* A buyer request was refused at the ceiling although an upstream response
\* had removed an entry: the retry of that entry took the slot again.
C9_Witness ==
    /\ refused # {}
    /\ Forwarded # {}
    /\ drained = FALSE
    /\ Cardinality(Pending) = MAX_PENDING_REQUESTS
    /\ \E k \in Pending : requestById[k].payment

\* C11 as stated: however often close() is called, the bridge calls close()
\* on each transport once and fires onclose at most once, and only when both
\* transports' close() have settled.
C11_OncloseAfterBothSettled ==
    /\ closeCalls > 0 => closeCount = [left |-> 1, right |-> 1]
    /\ closeCalls = 0 => closeCount = [left |-> 0, right |-> 0]
    /\ oncloseCalls = (IF closeP = "settled" THEN 1 ELSE 0)
    /\ oncloseCalls = 1 =>
          closeState.left # "pending" /\ closeState.right # "pending"

\* C11, amended: however often close() is called, the bridge calls close()
\* on each transport once and fires onclose at most once, and only when both
\* transports' close() have fulfilled or one of them has rejected.
C11_OncloseOnce ==
    /\ closeCalls > 0 => closeCount = [left |-> 1, right |-> 1]
    /\ closeCalls = 0 => closeCount = [left |-> 0, right |-> 0]
    /\ oncloseCalls = (IF closeP = "settled" THEN 1 ELSE 0)
    /\ oncloseCalls = 1 =>
          \/ closeState.left = "fulfilled" /\ closeState.right = "fulfilled"
          \/ closeState.left = "rejected"
          \/ closeState.right = "rejected"

\* close() was called more than once, a transport's close() rejected while
\* the other's was pending, and onclose has fired.
C11_Witness ==
    /\ closeCalls > 1
    /\ oncloseCalls = 1
    /\ \E a, b \in {"left", "right"} :
          closeState[a] = "rejected" /\ closeState[b] = "pending"

\* C12: once the bridge has closed (onclose has fired), no step calls
\* treasurer.onStatus.
C12_NoStatusAfterClose ==
    [][closeP = "settled" => statusLog' = statusLog]_vars

\* C13: when the retry for request r is registered, the buyer requests the
\* bridge has accepted are those it had accepted when the 402 for r arrived.
C13_RetryBeforeNextBuyerRequest ==
    [][\A t \in tasks :
        (t.pc = "onStatusSending" /\ t \notin tasks') =>
            (used \ refused) = held[t.request].accepted
    ]_vars

\* C14: the buyer receives upstream's messages in the order upstream sent
\* them.
C14_DeliveredInUpstreamOrder ==
    \A i, j \in 1..Len(deliveredSeq) : i < j => deliveredSeq[i] < deliveredSeq[j]

\* An HTTP request of the given method arrives in this step.
Arrives(method) == arrived' = arrived + 1 /\ lastRequest'.method = method

\* The request arriving in this step is answered in this step, with the given
\* status and code.
AnsweredAtOnce(status, code) ==
    /\ answered' = answered + 1
    /\ lastResponse' = [method |-> lastRequest'.method, session |-> lastRequest'.session,
                        status |-> status, code |-> code]

\* C15: a DELETE /mcp that names a session id that is not in the registry is
\* answered 404 and changes neither the registry nor any bridge; a DELETE that
\* arrives after a DELETE of the same id was answered 200 is such a request.
C15_UnknownSessionDelete ==
    [][(/\ Arrives("DELETE")
        /\ lastRequest'.session # NoSession
        /\ lastRequest'.session \notin bridges \/ lastRequest'.session \in deleted)
       => /\ AnsweredAtOnce("404", "")
          /\ UNCHANGED <<bridges, session, created, deleting, deleted>>]_vars

\* A DELETE of a session already deleted was answered 404 while another
\* session is registered.
C15_Witness ==
    /\ lastRequest.method = "DELETE"
    /\ lastRequest.session \in deleted
    /\ answered = arrived
    /\ lastResponse = [method |-> "DELETE", session |-> lastRequest.session,
                       status |-> "404", code |-> ""]
    /\ bridges # {}

C17_BadTargetCreatesNothing ==
    [][Arrives("POST") =>
         /\ lastRequest'.target \in {Missing, EmptyText} => AnsweredAtOnce("400", "")
         /\ lastRequest'.target = FtpTarget => AnsweredAtOnce("400", "INVALID_PROTOCOL")
         /\ lastRequest'.target = BadTarget => AnsweredAtOnce("400", "INVALID_URL")
         /\ lastRequest'.target \notin {HttpTarget, LocalTarget}
               => UNCHANGED <<bridges, session, created, deleting, deleted>>]_vars

\* A POST with a target of a refused protocol and the header of a registered,
\* open session was answered 400.
C17_Witness ==
    /\ lastRequest.method = "POST"
    /\ lastRequest.target = FtpTarget
    /\ lastRequest.session \in bridges
    /\ session[lastRequest.session].state = "open"
    /\ answered = arrived
    /\ lastResponse.status = "400"
    /\ lastResponse.code = "INVALID_PROTOCOL"

\* The text is an absolute http: or https: URL: the scheme in either case,
\* the ":", a host that parses and a port that parses.
IsWebURL(targetUrl) ==
    /\ targetUrl.scheme \in {"http", "HTTP", "https"}
    /\ targetUrl.colon
    /\ targetUrl.host \in {"example.com", "localhost", "127.0.0.1", "10.0.0.1",
                           "192.168.1.10", "[::1]"}
    /\ targetUrl.port \in {"", "8080"}

\* C18: validateTargetURL returns the parsed URL for every absolute http: or
\* https: URL, whatever its host (localhost, loopback and private addresses
\* included); it throws INVALID_PROTOCOL for a text that parses as a URL of
\* another protocol and INVALID_URL for a text that does not parse.
C18_ValidateTargetURL ==
    validated.target # NotCalled =>
        /\ IsWebURL(validated.target) =>
              /\ ~validated.outcome.threw
              /\ validated.outcome.url =
                    [protocol |-> IF validated.target.scheme = "https"
                                  THEN "https:" ELSE "http:",
                     host |-> validated.target.host,
                     port |-> validated.target.port]
        /\ (NewURL(validated.target).ok
            /\ NewURL(validated.target).url.protocol \notin {"http:", "https:"})
           => /\ validated.outcome.threw
              /\ validated.outcome.code = "INVALID_PROTOCOL"
        /\ ~NewURL(validated.target).ok
           => /\ validated.outcome.threw
              /\ validated.outcome.code = "INVALID_URL"
        /\ ~validated.outcome.threw => IsWebURL(validated.target)

\* An http URL of a private address was validated and returned.
C18_Witness ==
    /\ validated.target.scheme = "http"
    /\ validated.target.host = "192.168.1.10"
    /\ ~validated.outcome.threw
    /\ validated.outcome.url.host = "192.168.1.10"

\* C19: when AMPERSEND_API_URL is set, the options the command line builds
\* hold an Ampersend treasurer against that URL; when it is unset they hold
\* the naive treasurer.
C19_TreasurerFollowsApiUrl ==
    options.status = "ok" =>
        /\ processEnv["AMPERSEND_API_URL"] = "https://api.ampersend.ai"
              => /\ options.treasurer = "AmpersendTreasurer"
                 /\ options.apiUrl = processEnv["AMPERSEND_API_URL"]
        /\ processEnv["AMPERSEND_API_URL"] = Undefined
              => options.treasurer = "NaiveTreasurer"

\* C20: no failure escapes the Ampersend treasurer.  onPaymentRequired
\* returns null, and raises nothing, when authentication or the authorization
\* request fails or times out, when no requirement is authorized, when the
\* recommended index is out of bounds and when the wallet fails; onStatus
\* returns normally whether or not the event could be reported.
C20_NoFailureEscapes ==
    /\ lastReturn.value # "raised"
    /\ lastReturn.op = "onPaymentRequired" =>
          /\ lastReturn.value \in {"null", "authorization"}
          /\ lastReturn.cause # NoCause => lastReturn.value = "null"
    /\ lastReturn.op = "onStatus" => lastReturn.value = "void"

\* An onPaymentRequired whose wallet failed has returned null, with the
\* client authenticated.
C20_Witness ==
    /\ lastReturn = [op |-> "onPaymentRequired",
                     cause |-> [at |-> "wallet", how |-> "failed"], value |-> "null"]
    /\ apiClient.auth = "valid"

\* The request pending under the id of an answer upstream is about to give.
PendingFor(req) == requestById[req.id]

\* The step takes upstream's answer to req, the request pending under its id
\* carries no "ampersend/paymentId", and the answer is a settle-response.
SettleWithoutPaymentId(req) ==
    /\ req \in upInbox /\ req \notin upInbox'
    /\ emitted' = emitted + 1
    /\ req.id \in Pending
    /\ PendingFor(req).paymentId = NoId
    /\ \/ \E t \in tasks' \ tasks :
             t.request = PendingFor(req) /\ isMcpX402PaymentResponse(t.response.kind)
       \/ /\ Len(delivered') = Len(delivered) + 1
          /\ isMcpX402PaymentResponse(delivered'[Len(delivered')].kind)
       \/ delivered' = delivered /\ tasks' = tasks

\* C26: when a settle-response arrives for a pending request without
\* "ampersend/paymentId", the middleware awaits nothing (it throws), the
\* treasurer's onStatus is not called and the pending authorizations are
\* unchanged; the bridge hands the response to the buyer and is not closed.
C26_SettleWithoutPaymentId ==
    [][\A req \in upInbox :
          SettleWithoutPaymentId(req) =>
             /\ tasks' = tasks
             /\ statusLog' = statusLog
             /\ authorizations' = authorizations
             /\ Len(delivered') = Len(delivered) + 1
             /\ SubSeq(delivered', 1, Len(delivered)) = delivered
             /\ isMcpX402PaymentResponse(delivered'[Len(delivered')].kind)
             /\ delivered'[Len(delivered')].id =
                   RewriteId(PendingFor(req), [id |-> req.id, kind |-> ""]).id
             /\ closeP' = closeP /\ leftOpen' /\ rightOpen'
             /\ req.id \notin DOMAIN requestById'
      ]_vars

\* The buyer has received a settle-response for a request of its own that
\* was never paid for, and the treasurer has heard nothing.
C26_Witness ==
    /\ \E i \in 1..Len(delivered) :
          /\ delivered[i].kind = "settle_ok"
          /\ delivered[i].id \in used
          /\ \A outcome \in {"null", "throw", "authorization"} :
                ~BagIn(<<BuyerRequestMsg(delivered[i].id), outcome>>, decisions)
    /\ statusLog = EmptyBag
    /\ closeP = "unset"

\* C27: when the middleware processes a settle-response whose request carries
\* the id of a registered authorization, it calls treasurer.onStatus once
\* (accepted or rejected), and when that call ends, by return or by throw, no
\* retry is recorded or sent, onStatus is not called again and the
\* authorization is no longer registered.
C27_SettleReleasesAuthorization ==
    [][/\ \A t \in tasks' \ tasks :
            t.pc = "onStatusSettle" =>
               statusLog' = statusLog (+)
                   SetToBag({<<PaymentStatus(t.response.kind), t.request.paymentId>>})
       /\ \A t \in tasks \ tasks' :
            t.pc = "onStatusSettle" =>
               /\ statusLog' = statusLog
               /\ requestById' = requestById
               /\ sentRight' = sentRight
               /\ t.auth \notin authorizations'
      ]_vars

\* The step appends an error of the given transport to the calls of onerror.
Reports(side) == onerrorLog' = Append(onerrorLog, TransportError(side))

\* C28: an error either transport reports goes to the bridge's onerror and
\* changes nothing else: the bridge and its transports are as open or closed
\* as before and the pending map is the same.
C28_TransportErrorOnlyReported ==
    [][\A side \in {"left", "right"} :
          Reports(side) =>
             UNCHANGED <<requestById, authorizations, tasks, closeP, leftOpen,
                         rightOpen, used, refused, upInbox, sentRight, delivered,
                         statusLog, decisions, drained, closeVars, orderVars>>
      ]_vars

\* The buyer-side transport reported an error while a request was pending,
\* and the bridge is open with the request still pending.
C28_Witness ==
    /\ TransportErrors > 0
    /\ onerrorLog[Len(onerrorLog)] = TransportError("left")
    /\ closeP = "unset" /\ leftOpen /\ rightOpen
    /\ Pending # {}
    /\ closeCount = [left |-> 0, right |-> 0]

\* C29: an error the buyer-side transport reports closes the bridge.
C29_BuyerSideErrorCloses ==
    [][Reports("left") => closeP' # "unset"]_vars

\* C30: once the close of a registered session's bridge has completed,
\* whatever started it (a DELETE, a transport closing, the server stopping),
\* the registry has no entry for the session id; and the bridge the registry
\* holds for a session id is the bridge whose transport was initialized with
\* that id.
C30_RegistryFollowsBridges ==
    /\ \A b \in DOMAIN session :
          (session[b].state = "closed" /\ session[b].sid # NoSession)
          => session[b].sid \notin bridges
    /\ DOMAIN bridgeOf = bridges
    /\ \A sid \in bridges :
          /\ bridgeOf[sid] \in DOMAIN session
          /\ session[bridgeOf[sid]].sid = sid

\* The server has stopped after closing a session's bridge; another session
\* was deleted before; a third bridge was never initialized.
C30_Witness ==
    /\ stopping.phase = "stopped"
    /\ deleted # {}
    /\ \E b \in DOMAIN session :
          session[b].state = "closed" /\ session[b].sid \notin deleted \cup {NoSession}

\* C22: every payload createExactPayment produces has validAfter <
\* validBefore and validBefore - validAfter <= maxTimeoutSeconds + 600, the
\* clock being read as whole seconds that never decrease.
C22_ValidityWindow ==
    paymentPayload.made =>
        /\ paymentPayload.validAfter < paymentPayload.validBefore
        /\ paymentPayload.validBefore - paymentPayload.validAfter
              <= paymentPayload.maxTimeoutSeconds + GraceSeconds

\* C21: when calls of authorizePayment / reportPaymentEvent run concurrently
\* on an ApiClient without a valid token and the login succeeds, one nonce
\* request and one login request are sent, and every caller sends its
\* request with the token that login produced.
Undisturbed == authEvents.failed = 0 /\ authEvents.reset = 0
Proceeded(c) == calls[c].pc \in {"request", "returned", "threw"}
C21_OneRoundTrip ==
    Undisturbed =>
        /\ fetched.nonce <= 1
        /\ fetched.login <= 1
        /\ \A c \in Callers :
              Proceeded(c) => /\ fetched.nonce = 1
                              /\ fetched.login = 1
                              /\ auth.token = fetched.login
                              /\ calls[c].token = auth.token

\* Two callers that waited for the mutex while a third was logging in have
\* sent their requests.
C21_Witness ==
    /\ Undisturbed
    /\ \A c \in Callers : Proceeded(c)
    /\ Cardinality({c \in Callers : calls[c].waited}) = MaxCallers - 1

\* A finished call whose first attempt failed with a 402 McpError carrying
\* x402 data and whose treasurer returned an authorization.
Paid(call) ==
    /\ call.pc = "done"
    /\ call.first.class = "McpError" /\ call.first.code = 402 /\ call.first.data.kind = "x402"
    /\ call.decision = "authorization"

\* The status that follows "sending" for a retry that ended with outcome.
StatusAfter(outcome) ==
    IF outcome.kind = "result" THEN "accepted"
    ELSE IF outcome.class = "McpError" /\ outcome.code = 402 /\ outcome.data.kind = "x402"
    THEN "rejected" ELSE "error"

\* The operation was invoked once more with the payment in _meta, onStatus was
\* called with "sending" and then with the status of the retry's outcome, and
\* the caller got the retry's outcome.
Retried(call) ==
    /\ Len(call.attempts) = 2
    /\ call.attempts[1] = call.params
    /\ call.attempts[2]._meta.present
    /\ "x402/payment" \in DOMAIN call.attempts[2]._meta.fields
    /\ call.attempts[2]._meta.fields["x402/payment"] = TheAuthorization.payment
    /\ call.retry.kind \in {"result", "error"}
    /\ call.statuses = <<"sending", StatusAfter(call.retry)>>
    /\ call.got = call.retry

Unpaid(call) ==
    /\ call.pc = "done"
    /\ \/ call.first.kind = "result"
       \/ call.first.kind = "error" /\ ~(call.first.class = "McpError" /\ call.first.code = 402)
       \/ call.decision \in {"null", "throw"}

\* C24: callTool / readResource invokes the operation exactly once and never
\* calls onStatus when the first attempt succeeds, fails with a non-402 error,
\* fails with a 402 the treasurer declines with null, or onPaymentRequired
\* throws; the caller gets the result, the original error, the original 402
\* error, or the treasurer's error; onPaymentRequired is called only in the
\* two 402 cases.
C24_UnpaidCallIsSingle ==
    \A i \in ClientCalls :
        LET call == retryCalls[i]
        IN Unpaid(call) =>
              /\ call.attempts = <<call.params>>
              /\ call.statuses = <<>>
              /\ call.got = IF call.decision = "throw" THEN PlainError("onPaymentRequired")
                            ELSE call.first
              /\ call.required = IF call.decision \in {"null", "throw"} THEN 1 ELSE 0
              /\ call.decision \in {"null", "throw"} => call.first.code = 402

\* One call ended with the treasurer's error, another with a non-402 McpError
\* that carried x402 data.
C24_Witness ==
    \E i, j \in ClientCalls :
        /\ Unpaid(retryCalls[i]) /\ retryCalls[i].decision = "throw"
        /\ Unpaid(retryCalls[j]) /\ retryCalls[j].first.class = "McpError"
        /\ retryCalls[j].first.code # 402 /\ retryCalls[j].first.data.kind = "x402"

\* The payment of a call went through: the metadata carried it and onPayment
\* neither threw nor returned a settle response with success = false.
PaymentWentThrough(call) ==
    /\ call.metadata = "payment"
    /\ call.onPayment.kind = "returns"
    /\ ~(call.onPayment.response.present /\ ~call.onPayment.response.success)

\* The failure reason of a call, "undefined" when there is none.
FailureReason(call) ==
    LET reason == IF call.onPayment.kind = "throws" THEN call.onPayment.message
                  ELSE IF call.onPayment.kind = "returns"
                  THEN call.onPayment.response.errorReason
                  ELSE "undefined"
    IN IF reason = "" THEN "undefined" ELSE reason

\* C25: when onExecute returns requirements, execute runs only if the
\* metadata carries "x402/payment" and onPayment neither throws nor returns
\* success = false; otherwise a 402 error with x402Version 1, accepts =
\* [requirements] and the failure reason, if any, is raised and execute is
\* not called. When onExecute returns null, execute runs and onPayment is
\* not called. A successful settle response is attached to the result as
\* _meta["x402/payment-response"].
C25_PaymentGatesExecute ==
    \A i \in ToolCalls :
        LET call == toolCalls[i]
        IN /\ call.requirements \in {"requirements A", "requirements B"} =>
                 /\ call.executed > 0 => PaymentWentThrough(call)
                 /\ call.pc = "done" /\ ~PaymentWentThrough(call) =>
                       /\ call.executed = 0
                       /\ call.got.kind = "payment error"
                       /\ call.got.data.code = 402
                       /\ call.got.data.x402Version = 1
                       /\ call.got.data.accepts = <<call.requirements>>
                       /\ call.got.data.error = FailureReason(call)
           /\ call.requirements = "null" => call.executed = 1 /\ call.paid = 0
           /\ /\ call.pc = "done"
              /\ call.got.kind = "result"
              /\ call.onPayment.response.present
              => /\ call.onPayment.response.success
                 /\ call.got.result._meta.present
                 /\ call.got.result._meta.paymentResponse = call.onPayment.response

\* One call was paid, ran execute and returned its result with the settle
\* response attached next to the _meta the tool set; another was refused
\* with the reason of its failed settlement.
C25_Witness ==
    \E i, j \in ToolCalls :
        /\ toolCalls[i].pc = "done" /\ toolCalls[i].got.kind = "result"
        /\ toolCalls[i].executed = 1
        /\ toolCalls[i].got.result._meta.other = "kept"
        /\ toolCalls[i].got.result._meta.paymentResponse.success
        /\ toolCalls[j].pc = "done" /\ toolCalls[j].got.kind = "payment error"
        /\ toolCalls[j].got.data.error = "insufficient_funds"
        /\ toolCalls[j].executed = 0

\* The _meta of a request, {} when it has none.
MetaOf(request) ==
    IF request.params.present /\ request.params.hasMeta THEN request.params._meta
    ELSE EmptyObject

\* C31: when the treasurer approves, the request onMessage returns is the
\* originating request with "x402/payment" = authorization.payment and
\* "ampersend/paymentId" = authorization.authorizationId added to
\* params._meta: the id, the method, the other params and the other _meta
\* keys are as they were, and the originating request is unchanged.
C31_RetryIsRequestPlusPayment ==
    LET call == lastOnMessage
        made == call.messageWithPayment
        added == {"x402/payment", "ampersend/paymentId"}
    IN call.returned = "request" =>
          /\ made.id = call.request.id
          /\ made.method = call.request.method
          /\ made.params.present /\ made.params.hasMeta
          /\ made.params.other = call.request.params.other
          /\ DOMAIN made.params._meta = DOMAIN MetaOf(call.request) \cup added
          /\ made.params._meta["x402/payment"] = call.authorization.payment
          /\ made.params._meta["ampersend/paymentId"] = call.authorization.authorizationId
          /\ \A k \in DOMAIN MetaOf(call.request) \ added :
                made.params._meta[k] = MetaOf(call.request)[k]
          /\ call.requestAfter = call.request

\* A request with a name, arguments and a progress token was approved and
\* the retry was returned.
C31_Witness ==
    /\ lastOnMessage.returned = "request"
    /\ DOMAIN lastOnMessage.request.params.other = {"name", "arguments"}
    /\ "progressToken" \in DOMAIN MetaOf(lastOnMessage.request)
    /\ lastOnMessage.authorization.payment = "payment B"

\* The messages upstream can send: answers and messages of its own accord.
UpstreamMessages == Unsolicited \cup [id : ServerIds, kind : Kinds]

\* The message needs no payment handling: it has no id, or its id matches no
\* pending entry, or it is an ordinary response to a pending request.
Ordinary(message) ==
    \/ message.id = NoId
    \/ message.id \notin Pending
    \/ message.kind \in {"result", "error"}

\* The message as the buyer is to see it: with the original id when it
\* answers a retry, unchanged otherwise.
AsDelivered(message) ==
    IF message.id \in Pending /\ requestById[message.id].originalId # NoId
    THEN [message EXCEPT !.id = requestById[message.id].originalId]
    ELSE message

\* C32: a message from upstream without an id, or with an id that matches no
\* pending entry, or that is an ordinary response to a pending request, is
\* handed to the buyer as it is (with the original id when it answers a
\* retry); the treasurer is not called, the pending authorizations do not
\* change, and at most the entry of its own id leaves the pending map.
C32_OrdinaryMessagesPassThrough ==
    [][\A message \in UpstreamMessages :
          (Ordinary(message) /\ RightTransportOnmessage(message)) =>
             /\ delivered' = Append(delivered, AsDelivered(message))
             /\ tasks' = tasks
             /\ statusLog' = statusLog
             /\ decisions' = decisions
             /\ authorizations' = authorizations
             /\ \A id \in Pending \ {message.id} :
                   id \in DOMAIN requestById' /\ requestById'[id] = requestById[id]
             /\ DOMAIN requestById' \subseteq Pending
             /\ message.id \notin Pending => requestById' = requestById
      ]_vars

\* The buyer has received a notification while a retry was pending, and the
\* answer to that retry under the id of its own request.
C32_Witness ==
    /\ \E i, j \in 1..Len(delivered) :
          /\ i < j
          /\ delivered[i].kind = "notification"
          /\ delivered[j].kind = "result"
          /\ delivered[j].id \in used
          /\ BagIn(<<BuyerRequestMsg(delivered[j].id), "authorization">>, decisions)
    /\ Len(delivered) = 2

\* C38: a request upstream sends (an id and a method, such as a ping) removes
\* no pending buyer request and is not passed to the payment middleware, even
\* when its id is the id of a pending request.
C38_UpstreamRequestKeepsPending ==
    [][\A message \in Unsolicited :
          (message.kind = "ping" /\ RightTransportOnmessage(message)) =>
             /\ requestById' = requestById
             /\ delivered' = Append(delivered, message)
             /\ tasks' = tasks
      ]_vars

\* C33: NaiveTreasurer.onPaymentRequired returns null exactly when the
\* requirements array is empty, and then the wallet is not called, no payment
\* is made, no retry is sent and the response is forwarded; otherwise the wallet
\* is asked once, for requirements[0].
C33_NaiveTreasurerPicksFirst ==
    \A i \in DOMAIN naiveCalls :
        LET call == naiveCalls[i] IN
        /\ (call.state = "returned null") <=> (Len(call.requirements) = 0)
        /\ Len(call.requirements) = 0 =>
              /\ call.createPayment = <<>>
              /\ call.payment = NoRequirement
              /\ ~call.retrySent
              /\ call.forwarded
        /\ Len(call.requirements) > 0 =>
              /\ call.createPayment = <<call.requirements[1]>>
              /\ call.payment \in {NoRequirement, call.requirements[1]}

C33_Witness ==
    \E i, j \in DOMAIN naiveCalls :
        /\ naiveCalls[i].state = "returned null"
        /\ Len(naiveCalls[j].requirements) = 2
        /\ naiveCalls[j].state = "returned authorization"

\* The middleware throws: at once (the settle-response of a request without a
\* registered payment id), or when an await of the treasurer ends.
ThrowsAtOnce(message) ==
    /\ message.id \in Pending
    /\ OnMessageEntry(requestById[message.id], message.kind) = "throw"
    /\ RightTransportOnmessage(message)
ThrowsLater(t) ==
    PaymentRequiredReturns(t, "throw") \/ OnStatusReturns(t, "throw")

\* What the bridge does in the step where the middleware throws for `request`
\* and `response`, apart from the authorizations.
ThrowIsContained(request, response) ==
    /\ sentRight' = sentRight
    /\ upInbox' \subseteq upInbox
    /\ leftOpen => delivered' = Append(delivered, response)
    /\ \A k \in DOMAIN requestById' : requestById'[k] # request
    /\ closeP' = closeP /\ leftOpen' = leftOpen /\ rightOpen' = rightOpen
    /\ closeCalls' = closeCalls /\ oncloseCalls' = oncloseCalls

\* C34: when the middleware throws while handling the response to a pending
\* request, no retry is sent upstream, no authorization issued for that request
\* is registered, the response is forwarded to the buyer, the pending map holds
\* no entry for the request and the bridge stays open.
C34_MiddlewareThrowIsContained ==
    [][/\ \A message \in UpstreamMessages :
            ThrowsAtOnce(message) =>
                /\ ThrowIsContained(requestById[message.id],
                                    RewriteId(requestById[message.id], message))
                /\ authorizations' = authorizations
       /\ \A t \in tasks :
            ThrowsLater(t) =>
                /\ ThrowIsContained(t.request, t.response)
                /\ AuthorizationId(t.request) \notin authorizations'
      ]_vars

\* The target passes both checks of the POST handler.
ValidTarget(targetUrl) == ~TargetAbsent(targetUrl) /\ ~validateTargetURL(targetUrl).threw

\* C35: a POST /mcp with a valid target whose mcp-session-id names a
\* registered session is handled by that session's bridge and constructs no
\* bridge, whatever the target; a bridge is constructed only when the target is
\* valid and the header is absent or names no registered session, and it is
\* registered only under the session id its transport issued at initialize.
C35_RegisteredSessionKeepsItsBridge ==
    [][\A targetUrl \in QueryTargets, header \in Headers, body \in Bodies :
          Post(targetUrl, header, body) =>
              /\ (ValidTarget(targetUrl) /\ header \in bridges) =>
                    /\ created' = created
                    /\ bridges' = bridges /\ bridgeOf' = bridgeOf
                    /\ \A b \in DOMAIN session :
                          b # bridgeOf[header] => session'[b] = session[b]
                    /\ (body = "request" /\ session[bridgeOf[header]].state = "open") =>
                          session'[bridgeOf[header]].inflight
                              = session[bridgeOf[header]].inflight + 1
              /\ created' # created =>
                    /\ ValidTarget(targetUrl)
                    /\ header = NoSession \/ header \notin bridges
                    /\ created' = created + 1
              /\ \A sid \in bridges' \ bridges :
                    /\ created' = created + 1
                    /\ body = "initialize"
                    /\ session'[created'].sid = sid
                    /\ bridgeOf'[sid] = created'
      ]_vars

\* A request for a registered session has been handled by its bridge, the only
\* one constructed.
C35_Witness ==
    /\ lastRequest.method = "POST" /\ lastRequest.body = "request"
    /\ lastRequest.session \in bridges
    /\ ValidTarget(lastRequest.target)
    /\ created = 1
    /\ session[bridgeOf[lastRequest.session]].inflight = 1

\* C36: once close() has been called, the bridge inserts no pending entry and
\* calls _rightTransport.send no more, even when onMessage, called before the
\* close, returns a retry afterwards.
C36_NoRetryAfterClose ==
    [][closeP # "unset" =>
          /\ DOMAIN requestById' \subseteq DOMAIN requestById
          /\ sentRight' = sentRight]_vars

\* C37: requests with distinct ids get retries with distinct ids, so that no
\* step replaces the request a pending entry holds by another one.
C37_RetriesKeepTheirEntries ==
    [][\A k \in DOMAIN requestById \cap DOMAIN requestById' :
          requestById'[k] = requestById[k]]_vars

\* The accepted and rejected reports the treasurer got for an authorization.
TerminalReports(log, a) == CopiesIn(<<"accepted", a>>, log) + CopiesIn(<<"rejected", a>>, log)

\* C39: once the response to the retry of an authorization has been processed
\* (the step where onMessage returns or throws for it), whatever the response
\* is, the authorization is registered no more and the treasurer has received
\* one accepted or rejected report for it.
C39_RetryAnswerReleasesAuthorization ==
    [][/\ \A req \in upInbox, kind \in Kinds :
            (/\ req.paymentId # NoId
             /\ req.id \in Pending /\ requestById[req.id] = req
             /\ RightOnMessage(req, kind)
             /\ tasks' = tasks)
            => /\ req.paymentId \notin authorizations'
               /\ TerminalReports(statusLog', req.paymentId) = 1
       /\ \A t \in tasks, outcome \in {"return", "throw"} :
            (t.pc = "onStatusSettle" /\ OnStatusReturns(t, outcome))
            => /\ t.auth \notin authorizations'
               /\ TerminalReports(statusLog', t.auth) = 1
      ]_vars

\* The middleware is in its call of onStatus("sending") for authorization a.
Sending(a) == \E t \in tasks : t.pc = "onStatusSending" /\ t.auth = a

\* C40: for every authorization, onStatus("sending") is called once, and it
\* has returned when the retry is sent upstream; accepted or rejected is
\* reported at most once, and only after "sending" has returned.
C40_SendingOnceAndFirst ==
    /\ \A a \in authorizations : CopiesIn(<<"sending", a>>, statusLog) = 1
    /\ \A a \in BuyerIds :
          /\ CopiesIn(<<"sending", a>>, statusLog) <= 1
          /\ TerminalReports(statusLog, a) <= 1
          /\ TerminalReports(statusLog, a) = 1 =>
                CopiesIn(<<"sending", a>>, statusLog) = 1 /\ ~Sending(a)
    /\ \A request \in BagToSet(sentRight) :
          request.paymentId # NoId =>
              /\ CopiesIn(<<"sending", request.paymentId>>, statusLog) = 1
              /\ ~Sending(request.paymentId)

\* A retry was sent and settled: both reports were made for its authorization.
C40_Witness ==
    \E request \in BagToSet(sentRight) :
        /\ request.paymentId # NoId
        /\ CopiesIn(<<"sending", request.paymentId>>, statusLog) = 1
        /\ CopiesIn(<<"accepted", request.paymentId>>, statusLog) = 1
        /\ request.paymentId \notin authorizations

====
